---------------------------- MODULE Spec2Model ----------------------------
(***************************************************************************)
(* State-machine model of the guest virtual memory manager and of the      *)
(* guest runtime support of rexglue-sdk.                                   *)
(*                                                                         *)
(*   SpecHost : src/core/memory_posix.cpp over the host mapping table      *)
(*              (Linux build, MAP_FIXED_NOREPLACE available).              *)
(*   Spec, SpecZero, SpecRound : the Nt*VirtualMemory entries of           *)
(*              src/kernel/xboxkrnl/xboxkrnl_memory.cpp over the guest     *)
(*              heaps, one whole call at a time.                           *)
(*   SpecConc : two guest threads inside these entries, one heap call at   *)
(*              a time.                                                    *)
(*   SpecLock : guest threads running the code the recompiler emits for    *)
(*              mtmsrd and mfmsr (src/codegen/builders/system.cpp,         *)
(*              include/rex/kernel/format.h).                              *)
(*   SpecTrap : the trap service call ppc_trap                             *)
(*              (include/rex/kernel/format.h).                             *)
(*   SpecEmit : the trap instruction builders build_twi, build_tdi,        *)
(*              build_tw, build_td (src/codegen/builders/system.cpp).      *)
(*   SpecMmio : the PPC_MM_STORE_ / PPC_MM_LOAD_ macros over the arena     *)
(*              and the MMIO handler (include/rex/kernel/format.h).        *)
(*   SpecJmp  : ppc_setjmp / ppc_longjmp and the per-thread jmp_buf map.   *)
(*   SpecCall : PPC_CALL_INDIRECT_FUNC over the function table.            *)
(*   SpecCvar : the configuration variables of include/rex/cvar.h and      *)
(*              cvar.cpp: registry, lifecycle, constraints.                *)
(*   SpecRecomp : Recompile(ctx, force) of src/codegen/recompile.cpp.      *)
(*   SpecVsat : the code emitted for the saturating vector word            *)
(*              instructions, lane by lane.                                *)
(*   SpecSplat : the code emitted for the vector splat instructions.       *)
(*   SpecFmt  : format_core behind the guest's printf family               *)
(*              (include/rex/kernel/format.h, xboxkrnl_memory.cpp).        *)
(*   SpecAdj  : reservations made one by one and released with length 0    *)
(*              (src/core/memory_posix.cpp).                               *)
(*   SpecReg  : RegisterFlag and FlagRegistrar with its chained calls.     *)
(*   SpecCrf  : the code emitted for mtcr, mfcr and mfocrf.                *)
(*                                                                         *)
(* Host addresses are counted in host pages (4 KiB): every address the     *)
(* code hands to mmap / mprotect / munmap is page aligned, and the arena   *)
(* constants of IsRexManagedArenaAddressLinux are multiples of 4 KiB.      *)
(* Guest dwords are 32-bit two's complement integers: a guest address or   *)
(* size of 0x80000000 and above is the negative integer with the same bit  *)
(* pattern.                                                                *)
(***************************************************************************)
EXTENDS Integers, Sequences, FiniteSets, TLC

VARIABLES
    vmas,       \* host mapping table: host page -> mapping of that page
    hlast,      \* the last memory_posix call: arguments and result
    page_table, \* heap -> page number -> page entry of the guest heap
    contents,   \* heap -> page number -> what the guest page holds
    nlast,      \* the last Nt*VirtualMemory call: arguments and result
    threads,    \* guest thread -> the Nt*VirtualMemory call it is in
    round,      \* the VMM state the calls of the threads started from
    ppc_global_lock_count_,  \* the nesting counter of the global lock
    mutex,      \* global_critical_region::mutex(): owner and depth
    guest,      \* guest thread -> where it is in mtmsrd / mfmsr
    config,     \* the recompiler's skipMsr, and whether asserts are compiled
    asserts,    \* whether an assert has failed, and has ended the process
    ctx,        \* the PPCContext of the thread at a trap: r3 and r4
    membase,    \* the first bytes of guest memory, at the host pointer base
    tlast,      \* the trap service call made last, with what it logged
    insn,       \* the trap instruction the recompiler is at: mnemonic, word, fields
    printed,    \* what the builder of the instruction has emitted
    arena,      \* guest address -> the byte of the arena at it
    regs,       \* mapped MMIO address -> the device register at it
    mlast,      \* the last emitted load or store, with the handler calls it made
    jmp_buf_maps, \* thread -> guest jmp_buf address -> host jmp_buf
    inlined,    \* whether the build inlines ppc_setjmp into its caller
    jlast,      \* the last ppc_setjmp / ppc_longjmp and where control went
    func_table, \* slot -> the host function registered for it, or the null pointer
    ppc_config_included, \* whether the code is built with ppc_config.h
    clast,      \* the last indirect call and its outcome
    FLAGS,      \* flag name -> the value of its FLAGS_ variable
    g_finalized, \* whether FinalizeInit has been called
    g_lifecycle_override, \* whether a ScopedLifecycleOverride is active
    vlast,      \* the last cvar call and the state it was made in
    errors,     \* number of validation errors recorded in ctx.errors
    output_dir, \* the output directory: whether it exists and its files
    rlast,      \* the last Recompile and the state it ran in
    vr,         \* the vector registers vA, vB, vD of the instruction: four lanes of four bytes
    vscr_sat,   \* ctx.vscr_sat, the VSCR saturation flag
    slast,      \* the last vector instruction run
    sreg,       \* the vector registers vA and vD of a splat: sixteen bytes each
    plast,      \* the last splat instruction run
    fcall,      \* the format string, the arguments and the build of a format_core call
    flast,      \* the last call of format_core and what came of it
    avmas,      \* host mapping table of the reservations made one by one
    runs,       \* the ranges of the reservations still mapped
    alast,      \* the last reserve, commit or release of a run
    registry,   \* the vector of GetRegistryStorage() as the registrations build it
    index,      \* GetRegistryIndex(): flag name -> position in registry
    glast,      \* the last registration and the registry it was made on
    gpr,        \* the general register of mtcr, mfcr and mfocrf: the set of its one bits
    crf,        \* condition field -> flag -> whether it is set
    crlast      \* the last of mtcr, mfcr, mfocrf run, and the value mtcr moved

hostVars == <<vmas, hlast>>
vmmVars == <<page_table, contents, nlast>>
concVars == <<threads, round>>
lockVars == <<ppc_global_lock_count_, mutex, guest, config, asserts>>
trapVars == <<ctx, membase, tlast>>
emitVars == <<insn, printed>>
mmioVars == <<arena, regs, mlast>>
jmpVars == <<jmp_buf_maps, inlined, jlast>>
callVars == <<func_table, ppc_config_included, clast>>
cvarVars == <<FLAGS, g_finalized, g_lifecycle_override, vlast>>
recompVars == <<errors, output_dir, rlast>>
vsatVars == <<vr, vscr_sat, slast>>
splatVars == <<sreg, plast>>
fmtVars == <<fcall, flast>>
adjVars == <<avmas, runs, alast>>
regVars == <<registry, index, glast>>
crfVars == <<gpr, crf, crlast>>
vars == <<vmas, hlast, page_table, contents, nlast, threads, round,
          ppc_global_lock_count_, mutex, guest, config, asserts,
          ctx, membase, tlast,
          insn, printed,
          arena, regs, mlast,
          jmp_buf_maps, inlined, jlast,
          func_table, ppc_config_included, clast,
          FLAGS, g_finalized, g_lifecycle_override, vlast,
          errors, output_dir, rlast,
          vr, vscr_sat, slast,
          sreg, plast,
          fcall, flast,
          avmas, runs, alast,
          registry, index, glast,
          gpr, crf, crlast>>
\* the variables of the layers of the recompiler and of the guest runtime
laterVars == <<emitVars, mmioVars, jmpVars, callVars, cvarVars, recompVars, vsatVars, splatVars, fmtVars, adjVars, regVars, crfVars>>
coreVars == <<hostVars, vmmVars, concVars, lockVars, trapVars>>
\* what the calls of one layer leave alone
notHost == <<vmmVars, concVars, lockVars, trapVars, laterVars>>
notVmm == <<hostVars, concVars, lockVars, trapVars, laterVars>>
notConc == <<hostVars, nlast, lockVars, trapVars, laterVars>>
notLock == <<hostVars, vmmVars, concVars, trapVars, laterVars>>
notTrap == <<hostVars, vmmVars, concVars, lockVars, laterVars>>
notEmit == <<coreVars, mmioVars, jmpVars, callVars, cvarVars, recompVars, vsatVars, splatVars, fmtVars, adjVars, regVars, crfVars>>
notMmio == <<coreVars, emitVars, jmpVars, callVars, cvarVars, recompVars, vsatVars, splatVars, fmtVars, adjVars, regVars, crfVars>>
notJmp == <<coreVars, emitVars, mmioVars, callVars, cvarVars, recompVars, vsatVars, splatVars, fmtVars, adjVars, regVars, crfVars>>
notCall == <<coreVars, emitVars, mmioVars, jmpVars, cvarVars, recompVars, vsatVars, splatVars, fmtVars, adjVars, regVars, crfVars>>
notCvar == <<coreVars, emitVars, mmioVars, jmpVars, callVars, recompVars, vsatVars, splatVars, fmtVars, adjVars, regVars, crfVars>>
notRecomp == <<coreVars, emitVars, mmioVars, jmpVars, callVars, cvarVars, vsatVars, splatVars, fmtVars, adjVars, regVars, crfVars>>
notVsat == <<coreVars, emitVars, mmioVars, jmpVars, callVars, cvarVars, recompVars, splatVars, fmtVars, adjVars, regVars, crfVars>>
notSplat == <<coreVars, emitVars, mmioVars, jmpVars, callVars, cvarVars, recompVars, vsatVars, fmtVars, adjVars, regVars, crfVars>>
notFmt == <<coreVars, emitVars, mmioVars, jmpVars, callVars, cvarVars, recompVars, vsatVars, splatVars, adjVars, regVars, crfVars>>
notAdj == <<coreVars, emitVars, mmioVars, jmpVars, callVars, cvarVars, recompVars, vsatVars, splatVars, fmtVars, regVars, crfVars>>
notReg == <<coreVars, emitVars, mmioVars, jmpVars, callVars, cvarVars, recompVars, vsatVars, splatVars, fmtVars, adjVars, crfVars>>
notCrf == <<coreVars, emitVars, mmioVars, jmpVars, callVars, cvarVars, recompVars, vsatVars, splatVars, fmtVars, adjVars, regVars>>

---------------------------------------------------------------------------
(* Bounds of the host model.                                               *)

\* host pages of the modelled window that lie inside the arena; the window
\* also holds the first page above the arena
NumArenaPages == 2
\* longest range, in pages, a call is made with
MaxLen == 2

---------------------------------------------------------------------------
(* memory_posix.cpp : arena guard                                          *)

\* constexpr uintptr_t kMinMappingBase = 0x100000000ULL, in 4 KiB pages
kMinMappingBase == 1048576
\* constexpr uintptr_t kTotalSpan = 0x120000000ULL, in 4 KiB pages
kTotalSpan == 1179648
\* out = a + b; return out >= a.  No modelled address comes near the
\* largest uintptr_t, so the sum never wraps.
CheckedAdd(a, b) == [ok |-> a + b >= a, out |-> a + b]

RECURSIVE HighestPow2LE(_)
HighestPow2LE(x) ==
    IF x = 0 THEN 0
    ELSE IF x = 1 THEN 1
    ELSE 2 * HighestPow2LE(x \div 2)

IsRexManagedArenaAddressLinux(base_address, length) ==
    IF base_address = 0 \/ length = 0 THEN FALSE
    ELSE LET addr == base_address
             e == CheckedAdd(addr, length)
             mapping_base == HighestPow2LE(addr)
             span == CheckedAdd(mapping_base, kTotalSpan)
         IN IF addr < kMinMappingBase THEN FALSE
            ELSE IF ~e.ok THEN FALSE
            ELSE IF mapping_base < kMinMappingBase THEN FALSE
            ELSE IF ~span.ok THEN FALSE
            ELSE addr >= mapping_base /\ e.out <= span.out

SanitizeFixedBaseLinux(base_address, length) ==
    IF base_address # 0 /\ ~IsRexManagedArenaAddressLinux(base_address, length)
    THEN 0
    ELSE base_address

---------------------------------------------------------------------------
(* The modelled window of the host address space: the last pages of the    *)
(* arena [2*kMinMappingBase, 2*kMinMappingBase + kTotalSpan) and the pages *)
(* right above it, so that ranges inside, outside and across the arena     *)
(* boundary all occur.                                                     *)

ArenaEnd == 2 * kMinMappingBase + kTotalSpan
HostLo == ArenaEnd - NumArenaPages
HostHi == ArenaEnd
HostPages == HostLo .. HostHi
RangePages(addr, length) == {p \in HostPages : addr <= p /\ p < addr + length}
InWindow(addr, length) == addr >= HostLo /\ addr + length <= HostHi + 1

PROT_NONE == {}
Unmapped == [kind |-> "none", prot |-> PROT_NONE, off |-> 0]
IsMapped(v, p) == p \in HostPages /\ v[p].kind # "none"

\* PageAccess values the calls are made with
PageAccesses == {"kNoAccess", "kReadOnly", "kReadWrite"}

ToPosixProtectFlags(access) ==
    CASE access = "kNoAccess" -> PROT_NONE
      [] access = "kReadOnly" -> {"PROT_READ"}
      [] access = "kReadWrite" -> {"PROT_READ", "PROT_WRITE"}
      [] access = "kExecuteReadOnly" -> {"PROT_READ", "PROT_EXEC"}
      [] access = "kExecuteReadWrite" -> {"PROT_READ", "PROT_WRITE", "PROT_EXEC"}
      [] OTHER -> PROT_NONE

PosixFixedFlagsFor(base_address) ==
    IF base_address = 0 THEN {} ELSE {"MAP_FIXED_NOREPLACE"}

---------------------------------------------------------------------------
(* Host primitives, as Linux implements them.                              *)

\* mmap: with MAP_FIXED_NOREPLACE the call fails with EEXIST when a page of
\* the range is mapped; with MAP_FIXED it replaces what is there; with
\* neither the kernel places the mapping at a free range of its choice
\* (pick).  off is the file offset, in pages, of the first page.
mmap(v, addr, length, prot, flags, kind, off, pick) ==
    LET at == IF flags \cap {"MAP_FIXED", "MAP_FIXED_NOREPLACE"} = {} THEN pick ELSE addr
        busy == \E p \in RangePages(at, length) : IsMapped(v, p)
        mapped == [p \in HostPages |->
                     IF p \in RangePages(at, length)
                     THEN [kind |-> kind, prot |-> prot,
                           off |-> IF kind = "anon" THEN 0 ELSE off + (p - at)]
                     ELSE v[p]]
    IN IF length = 0
       THEN [ok |-> FALSE, errno |-> "EINVAL", addr |-> 0, vmas |-> v]
       ELSE IF "MAP_FIXED" \notin flags /\ busy
       THEN [ok |-> FALSE,
             errno |-> IF "MAP_FIXED_NOREPLACE" \in flags THEN "EEXIST" ELSE "ENOMEM",
             addr |-> 0, vmas |-> v]
       ELSE [ok |-> TRUE, errno |-> "", addr |-> at, vmas |-> mapped]

\* first unmapped page at or after addr, below addr + length
RECURSIVE FirstHole(_, _, _)
FirstHole(v, addr, end) ==
    IF addr >= end THEN end
    ELSE IF ~IsMapped(v, addr) THEN addr
    ELSE FirstHole(v, addr + 1, end)

\* mprotect: changes the pages up to the first hole of the range and fails
\* with ENOMEM when there is one; a length of 0 succeeds and changes nothing.
mprotect(v, addr, length, prot) ==
    LET hole == FirstHole(v, addr, addr + length)
    IN [ok |-> hole = addr + length,
        vmas |-> [p \in HostPages |->
                    IF addr <= p /\ p < hole THEN [v[p] EXCEPT !.prot = prot]
                    ELSE v[p]]]

\* munmap: unmaps every page of the range; fails with EINVAL for length 0.
munmap(v, addr, length) ==
    IF length = 0 THEN [ok |-> FALSE, vmas |-> v]
    ELSE [ok |-> TRUE,
          vmas |-> [p \in HostPages |->
                      IF p \in RangePages(addr, length) THEN Unmapped ELSE v[p]]]

---------------------------------------------------------------------------
(* /proc/self/maps as the kernel prints it and ParseProcMapsLine reads it:  *)
(* one LinuxMapEntry per maximal run of pages of one mapping with the same *)
(* permissions; the offset of an entry is the file offset of its start.    *)

Perms(pg) ==
    << IF "PROT_READ" \in pg.prot THEN "r" ELSE "-",
       IF "PROT_WRITE" \in pg.prot THEN "w" ELSE "-",
       IF "PROT_EXEC" \in pg.prot THEN "x" ELSE "-",
       IF pg.kind = "file" THEN "s" ELSE "p" >>

LinuxMapEntry(start, end, pg) ==
    [start |-> start, end |-> end,
     offset |-> pg.off,
     perms |-> Perms(pg),
     dev_major |-> IF pg.kind = "foreign" THEN 8 ELSE 0,
     dev_minor |-> IF pg.kind = "anon" THEN 0 ELSE 1,
     inode |-> IF pg.kind = "anon" THEN 0 ELSE IF pg.kind = "file" THEN 7 ELSE 9,
     pathname |-> IF pg.kind = "anon" THEN ""
                  ELSE IF pg.kind = "file" THEN "/dev/shm/arena" ELSE "/lib/host.so"]

\* the kernel keeps two neighbouring pages in one entry
SameVma(a, b) ==
    /\ a.kind = b.kind
    /\ a.prot = b.prot
    /\ IF a.kind = "anon" THEN TRUE ELSE b.off = a.off + 1

RECURSIVE RunEnd(_, _)
RunEnd(v, p) ==
    IF p + 1 <= HostHi /\ IsMapped(v, p + 1) /\ SameVma(v[p], v[p + 1])
    THEN RunEnd(v, p + 1)
    ELSE p + 1

RECURSIVE ProcMapsFrom(_, _)
ProcMapsFrom(v, p) ==
    IF p > HostHi THEN <<>>
    ELSE IF ~IsMapped(v, p) THEN ProcMapsFrom(v, p + 1)
    ELSE LET e == RunEnd(v, p)
         IN <<LinuxMapEntry(p, e, v[p])>> \o ProcMapsFrom(v, e)

ReadProcMaps(v) == ProcMapsFrom(v, HostLo)

SameBackingIgnoringPerms(a, b) ==
    LET a_private == (a.perms[4] = "p")
        b_private == (b.perms[4] = "p")
        both_have_path == a.pathname # "" /\ b.pathname # ""
        path_ok == ~both_have_path \/ (a.pathname = b.pathname)
    IN /\ a_private = b_private
       /\ a.dev_major = b.dev_major
       /\ a.dev_minor = b.dev_minor
       /\ a.inode = b.inode
       /\ a.offset = b.offset
       /\ path_ok

\* index of the first entry that holds addr, 0 when none does
RECURSIVE FindIdx(_, _, _)
FindIdx(entries, addr, i) ==
    IF i > Len(entries) THEN 0
    ELSE IF addr >= entries[i].start /\ addr < entries[i].end THEN i
    ELSE FindIdx(entries, addr, i + 1)

FindEntryForAddressLinux(v, address) ==
    LET entries == ReadProcMaps(v)
        i == FindIdx(entries, address, 1)
    IN [found |-> i # 0, entry |-> IF i # 0 THEN entries[i] ELSE LinuxMapEntry(0, 0, Unmapped)]

RECURSIVE SpanBack(_, _, _, _)
SpanBack(entries, key, i, start) ==
    IF i < 1 THEN start
    ELSE IF entries[i].end # start THEN start
    ELSE IF ~SameBackingIgnoringPerms(entries[i], key) THEN start
    ELSE SpanBack(entries, key, i - 1, entries[i].start)

RECURSIVE SpanFwd(_, _, _, _)
SpanFwd(entries, key, i, end) ==
    IF i > Len(entries) THEN end
    ELSE IF entries[i].start # end THEN end
    ELSE IF ~SameBackingIgnoringPerms(entries[i], key) THEN end
    ELSE SpanFwd(entries, key, i + 1, entries[i].end)

GetContiguousSpanLinux(v, address) ==
    LET entries == ReadProcMaps(v)
        idx == FindIdx(entries, address, 1)
    IN IF entries = <<>> THEN [ok |-> FALSE, out_start |-> 0, out_end |-> 0]
       ELSE IF idx = 0 THEN [ok |-> FALSE, out_start |-> 0, out_end |-> 0]
       ELSE LET key == entries[idx]
                start == SpanBack(entries, key, idx - 1, key.start)
                end == SpanFwd(entries, key, idx + 1, key.end)
            IN [ok |-> start < end, out_start |-> start, out_end |-> end]

\* ForEachProcMapsEntry with the gap-checking callback: cursor walks the
\* entries in file order, stopping at a gap or once the range is covered.
RECURSIVE CoverWalk(_, _, _, _, _)
CoverWalk(entries, i, cursor, end, had_any) ==
    IF i > Len(entries) THEN [had_any |-> had_any, cursor |-> cursor]
    ELSE IF entries[i].end <= cursor THEN CoverWalk(entries, i + 1, cursor, end, had_any)
    ELSE IF entries[i].start > cursor THEN [had_any |-> TRUE, cursor |-> cursor]
    ELSE IF entries[i].end < end THEN CoverWalk(entries, i + 1, entries[i].end, end, TRUE)
    ELSE [had_any |-> TRUE, cursor |-> entries[i].end]

IsRangeFullyMappedLinux(v, base_address, length) ==
    IF base_address = 0 \/ length = 0 THEN FALSE
    ELSE LET e == CheckedAdd(base_address, length)
             w == CoverWalk(ReadProcMaps(v), 1, base_address, e.out, FALSE)
         IN IF ~e.ok THEN FALSE
            ELSE w.had_any /\ w.cursor >= e.out

---------------------------------------------------------------------------
(* memory_posix.cpp : AllocFixed, DeallocFixed                             *)

\* AllocFixed without the commit-over-reserve emulation: a first mmap that
\* fails is the result
AllocFixed_NoEmulation(v, base_address, length, allocation_type, access, pick) ==
    LET prot_requested == ToPosixProtectFlags(access)
        prot_initial == IF allocation_type = "kReserve" THEN PROT_NONE
                        ELSE prot_requested
        flags == {"MAP_PRIVATE", "MAP_ANONYMOUS"} \cup PosixFixedFlagsFor(base_address)
        first == mmap(v, base_address, length, prot_initial, flags, "anon", 0, pick)
    IN IF first.ok THEN [result |-> first.addr, vmas |-> first.vmas]
       ELSE [result |-> 0, vmas |-> v]

\* AllocFixed that repairs with MAP_FIXED without asking the arena guard
AllocFixed_NoArenaGuard(v, base_address, length, allocation_type, access, pick) ==
    LET prot_requested == ToPosixProtectFlags(access)
        prot_initial == IF allocation_type = "kReserve" THEN PROT_NONE
                        ELSE prot_requested
        flags == {"MAP_PRIVATE", "MAP_ANONYMOUS"} \cup PosixFixedFlagsFor(base_address)
        first == mmap(v, base_address, length, prot_initial, flags, "anon", 0, pick)
        prot_only == mprotect(v, base_address, length, prot_requested)
        repaired == mmap(v, base_address, length, prot_requested,
                         {"MAP_PRIVATE", "MAP_ANONYMOUS", "MAP_FIXED"}, "anon", 0, pick)
    IN IF first.ok THEN [result |-> first.addr, vmas |-> first.vmas]
       ELSE IF /\ first.errno = "EEXIST"
               /\ base_address # 0
               /\ allocation_type \in {"kCommit", "kReserveCommit"}
       THEN IF IsRangeFullyMappedLinux(v, base_address, length)
            THEN IF prot_only.ok
                 THEN [result |-> base_address, vmas |-> prot_only.vmas]
                 ELSE [result |-> 0, vmas |-> prot_only.vmas]
            ELSE [result |-> IF repaired.ok THEN repaired.addr ELSE 0,
                  vmas |-> repaired.vmas]
       ELSE [result |-> 0, vmas |-> v]

AllocFixed(v, base_address, length, allocation_type, access, pick) ==
    LET prot_requested == ToPosixProtectFlags(access)
        prot_initial == IF allocation_type = "kReserve" THEN PROT_NONE
                        ELSE prot_requested
        flags == {"MAP_PRIVATE", "MAP_ANONYMOUS"} \cup PosixFixedFlagsFor(base_address)
        first == mmap(v, base_address, length, prot_initial, flags, "anon", 0, pick)
        prot_only == mprotect(v, base_address, length, prot_requested)
        repaired == mmap(v, base_address, length, prot_requested,
                         {"MAP_PRIVATE", "MAP_ANONYMOUS", "MAP_FIXED"}, "anon", 0, pick)
    IN IF first.ok THEN [result |-> first.addr, vmas |-> first.vmas]
       ELSE IF /\ first.errno = "EEXIST"
               /\ base_address # 0
               /\ allocation_type \in {"kCommit", "kReserveCommit"}
       THEN IF IsRangeFullyMappedLinux(v, base_address, length)
            THEN IF prot_only.ok
                 THEN [result |-> base_address, vmas |-> prot_only.vmas]
                 ELSE [result |-> 0, vmas |-> prot_only.vmas]
            ELSE IF IsRexManagedArenaAddressLinux(base_address, length)
            THEN [result |-> IF repaired.ok THEN repaired.addr ELSE 0,
                  vmas |-> repaired.vmas]
            ELSE [result |-> 0, vmas |-> v]
       ELSE [result |-> 0, vmas |-> v]

\* DeallocFixed that does not compare the start of the span with the base
DeallocFixed_NoStartCheck(v, base_address, length, deallocation_type) ==
    IF deallocation_type = "kDecommit"
    THEN LET mp == mprotect(v, base_address, length, PROT_NONE)
         IN [ok |-> mp.ok, vmas |-> mp.vmas]
    ELSE IF deallocation_type = "kRelease"
    THEN LET span == GetContiguousSpanLinux(v, base_address)
             unmap_len == IF length = 0 THEN span.out_end - span.out_start
                          ELSE length
         IN IF length = 0 /\ ~span.ok THEN [ok |-> FALSE, vmas |-> v]
            ELSE munmap(v, base_address, unmap_len)
    ELSE [ok |-> FALSE, vmas |-> v]

DeallocFixed(v, base_address, length, deallocation_type) ==
    IF deallocation_type = "kDecommit"
    THEN LET mp == mprotect(v, base_address, length, PROT_NONE)
         IN \* madvise(MADV_DONTNEED) leaves the mapping table as it is
            [ok |-> mp.ok, vmas |-> mp.vmas]
    ELSE IF deallocation_type = "kRelease"
    THEN LET span == GetContiguousSpanLinux(v, base_address)
             unmap_len == IF length = 0 THEN span.out_end - span.out_start
                          ELSE length
         IN IF length = 0 /\ ~span.ok THEN [ok |-> FALSE, vmas |-> v]
            ELSE IF length = 0 /\ span.out_start # base_address
            THEN [ok |-> FALSE, vmas |-> v]
            ELSE munmap(v, base_address, unmap_len)
    ELSE [ok |-> FALSE, vmas |-> v]

---------------------------------------------------------------------------
(* SpecHost: memory_posix calls made in any order on the host window.  A   *)
(* call leaves its arguments, its result and the mapping table it started  *)
(* from in hlast; the caller then either makes the next call (HostReturn)  *)
(* or, after a successful reserve, commits the run it has just reserved.   *)

AllocationTypes == {"kReserve", "kCommit", "kReserveCommit"}
DeallocationTypes == {"kDecommit", "kRelease"}
Lengths == 0 .. MaxLen

NoCall == [op |-> "none", base |-> 0, len |-> 0, type |-> "", access |-> "",
           ok |-> FALSE, follows_reserve |-> "", pre |-> <<>>]

\* the arena as the runtime leaves it at start-up: not mapped yet, or
\* mapped as one read-write view of the arena file
ArenaAtStart ==
    { [p \in HostLo .. ArenaEnd - 1 |-> Unmapped],
      [p \in HostLo .. ArenaEnd - 1 |->
          [kind |-> "file", prot |-> {"PROT_READ", "PROT_WRITE"}, off |-> p - HostLo]] }

\* the page above the arena: a mapping of the host process that is not the
\* runtime's
Foreign == [kind |-> "foreign", prot |-> {"PROT_READ"}, off |-> 0]

HostInit ==
    /\ \E a \in ArenaAtStart :
          vmas = [p \in HostPages |-> IF p < ArenaEnd THEN a[p] ELSE Foreign]
    /\ hlast = NoCall

RangeFree(v, addr, length) == \A p \in RangePages(addr, length) : ~IsMapped(v, p)

AllocFixedCall(base_address, length, allocation_type, access, pick, follows) ==
    LET r == AllocFixed(vmas, base_address, length, allocation_type, access, pick)
    IN /\ vmas' = r.vmas
       /\ hlast' = [op |-> "AllocFixed",
                    base |-> IF base_address = 0 THEN r.result ELSE base_address,
                    len |-> length, type |-> allocation_type,
                    access |-> access, ok |-> r.result # 0,
                    follows_reserve |-> follows, pre |-> vmas]
       /\ UNCHANGED notHost

\* a fixed base inside the window
AllocFixedAt ==
    /\ hlast.op = "none"
    /\ \E base_address \in HostPages, length \in Lengths,
          allocation_type \in AllocationTypes, access \in PageAccesses :
           /\ InWindow(base_address, length)
           /\ AllocFixedCall(base_address, length, allocation_type, access, 0, "")

\* a null base: the kernel places the mapping at a free range it picks
AllocFixedAnywhere ==
    /\ hlast.op = "none"
    /\ \E pick \in HostPages, length \in Lengths \ {0},
          allocation_type \in AllocationTypes, access \in PageAccesses :
           /\ InWindow(pick, length)
           /\ RangeFree(vmas, pick, length)
           /\ AllocFixedCall(0, length, allocation_type, access, pick, "")

\* the run a successful reserve has just returned is committed;
\* follows_reserve keeps the access the reserve was called with
AllocFixedAfterReserve ==
    /\ hlast.op = "AllocFixed" /\ hlast.type = "kReserve" /\ hlast.ok
    /\ \E allocation_type \in {"kCommit", "kReserveCommit"}, access \in PageAccesses :
           AllocFixedCall(hlast.base, hlast.len, allocation_type, access, 0, hlast.access)

DeallocFixedCall ==
    /\ hlast.op = "none"
    /\ \E base_address \in HostPages, length \in Lengths,
          deallocation_type \in DeallocationTypes :
           /\ InWindow(base_address, length)
           /\ LET r == DeallocFixed(vmas, base_address, length, deallocation_type)
              IN /\ vmas' = r.vmas
                 /\ hlast' = [op |-> "DeallocFixed", base |-> base_address,
                              len |-> length, type |-> deallocation_type,
                              access |-> "", ok |-> r.ok,
                              follows_reserve |-> "", pre |-> vmas]
                 /\ UNCHANGED notHost

HostReturn ==
    /\ hlast.op # "none"
    /\ hlast' = NoCall
    /\ UNCHANGED vmas
    /\ UNCHANGED notHost

HostNext ==
    \/ AllocFixedAt
    \/ AllocFixedAnywhere
    \/ AllocFixedAfterReserve
    \/ DeallocFixedCall
    \/ HostReturn

---------------------------------------------------------------------------
(* Claims about memory_posix.cpp, checked under SpecHost.                  *)

HostRange == RangePages(hlast.base, hlast.len)

\* C2: AllocFixed(a, n, reserve) of a free run succeeds, and the
\* AllocFixed(a, n, commit, p) that follows it succeeds and leaves every
\* page of the run mapped with the protection p of the second call.
C2_ReserveThenCommit ==
    /\ ( /\ hlast.op = "AllocFixed" /\ hlast.type = "kReserve"
         /\ hlast.len > 0 /\ RangeFree(hlast.pre, hlast.base, hlast.len)
         => hlast.ok )
    /\ ( /\ hlast.op = "AllocFixed" /\ hlast.type = "kCommit"
         /\ hlast.follows_reserve # ""
         => /\ hlast.ok
            /\ \A p \in HostRange :
                  /\ IsMapped(vmas, p)
                  /\ vmas[p].prot = ToPosixProtectFlags(hlast.access) )

\* a run of the longest length was reserved with one access and then
\* committed read-only
C2_Witness ==
    /\ hlast.op = "AllocFixed" /\ hlast.type = "kCommit" /\ hlast.ok
    /\ hlast.follows_reserve = "kReadWrite" /\ hlast.access = "kReadOnly"
    /\ hlast.len = MaxLen
    /\ \A p \in HostRange : vmas[p].prot = {"PROT_READ"}

\* the backing attributes /proc/self/maps shows for an entry
Backing(e) == <<e.perms[4], e.dev_major, e.dev_minor, e.inode, e.offset, e.pathname>>

\* entries i..j of es lie end to start and have the backing of entry k
ChainOf(es, i, j, k) ==
    /\ \A m \in i .. j - 1 : es[m].end = es[m + 1].start
    /\ \A m \in i .. j : Backing(es[m]) = Backing(es[k])

\* C4: DeallocFixed(base, 0, release) unmaps exactly the maximal contiguous
\* span of mappings with identical backing attributes when that span starts
\* at base; when base is unmapped or the span starts elsewhere it fails and
\* unmaps nothing.
C4_ReleaseSpan ==
    hlast.op = "DeallocFixed" /\ hlast.type = "kRelease" /\ hlast.len = 0 =>
        LET es == ReadProcMaps(hlast.pre)
            at == {i \in 1 .. Len(es) : es[i].start <= hlast.base /\ hlast.base < es[i].end}
        IN IF at = {}
           THEN ~hlast.ok /\ vmas = hlast.pre
           ELSE LET k == CHOOSE i \in at : TRUE
                    lo == CHOOSE i \in 1 .. k :
                            /\ ChainOf(es, i, k, k)
                            /\ \A j \in 1 .. k : ChainOf(es, j, k, k) => i <= j
                    hi == CHOOSE i \in k .. Len(es) :
                            /\ ChainOf(es, k, i, k)
                            /\ \A j \in k .. Len(es) : ChainOf(es, k, j, k) => j <= i
                IN IF es[lo].start = hlast.base
                   THEN /\ hlast.ok
                        /\ \A p \in HostPages :
                              vmas[p] = IF hlast.base <= p /\ p < es[hi].end
                                        THEN Unmapped ELSE hlast.pre[p]
                   ELSE ~hlast.ok /\ vmas = hlast.pre

\* a release that unmapped a span of two entries (a committed page and a
\* reserved page of one anonymous mapping) and left the rest mapped
C4_Witness ==
    /\ hlast.op = "DeallocFixed" /\ hlast.type = "kRelease" /\ hlast.len = 0
    /\ hlast.ok
    /\ hlast.pre[hlast.base].kind = "anon"
    /\ hlast.base + 1 \in HostPages
    /\ hlast.pre[hlast.base + 1].kind = "anon"
    /\ hlast.pre[hlast.base + 1].prot # hlast.pre[hlast.base].prot
    /\ ~IsMapped(vmas, hlast.base) /\ ~IsMapped(vmas, hlast.base + 1)
    /\ \E p \in HostPages : IsMapped(vmas, p)

\* a release from inside a span that starts below the base fails
C4_WitnessRefused ==
    /\ hlast.op = "DeallocFixed" /\ hlast.type = "kRelease" /\ hlast.len = 0
    /\ ~hlast.ok
    /\ IsMapped(hlast.pre, hlast.base)

InArena(addr, length) == \A p \in RangePages(addr, length) : p < ArenaEnd
\* C5 as stated: when the first mmap of a fixed-base AllocFixed fails
\* because the range is mapped, no existing mapping above the arena is
\* replaced or has its protection changed, and a call whose range is not
\* inside the arena returns failure.
C5_AsStated ==
    hlast.op = "AllocFixed" /\ hlast.len > 0
    /\ (\E p \in HostRange : IsMapped(hlast.pre, p)) =>
        /\ \A p \in HostPages :
              p >= ArenaEnd /\ IsMapped(hlast.pre, p) => vmas[p] = hlast.pre[p]
        /\ (~InArena(hlast.base, hlast.len) => ~hlast.ok)

\* C5 as amended: no existing mapping outside the arena is replaced; a
\* reserve fails and changes nothing; a commit of a fully mapped range
\* changes the protection of the range to the requested one and succeeds,
\* also outside the arena; a commit of a range with a gap replaces the
\* range when it lies inside the arena and otherwise fails and changes
\* nothing.
C5_ArenaGuard ==
    hlast.op = "AllocFixed" /\ hlast.len > 0
    /\ (\E p \in HostRange : IsMapped(hlast.pre, p)) =>
        /\ \A p \in HostPages :
              p >= ArenaEnd /\ IsMapped(hlast.pre, p) =>
                  vmas[p].kind = hlast.pre[p].kind /\ vmas[p].off = hlast.pre[p].off
        /\ IF hlast.type = "kReserve"
           THEN ~hlast.ok /\ vmas = hlast.pre
           ELSE IF \A p \in HostRange : IsMapped(hlast.pre, p)
           THEN /\ hlast.ok
                /\ \A p \in HostPages :
                      vmas[p] = IF p \in HostRange
                                THEN [hlast.pre[p] EXCEPT
                                        !.prot = ToPosixProtectFlags(hlast.access)]
                                ELSE hlast.pre[p]
           ELSE IF InArena(hlast.base, hlast.len)
           THEN /\ hlast.ok
                /\ \A p \in HostPages :
                      vmas[p] = IF p \in HostRange
                                THEN [kind |-> "anon",
                                      prot |-> ToPosixProtectFlags(hlast.access),
                                      off |-> 0]
                                ELSE hlast.pre[p]
           ELSE ~hlast.ok /\ vmas = hlast.pre

\* a commit of the mapped page above the arena succeeded and changed the
\* protection of a mapping that is not the runtime's
C5_Witness ==
    /\ hlast.op = "AllocFixed" /\ hlast.type = "kCommit" /\ hlast.ok
    /\ hlast.base = ArenaEnd /\ hlast.len = 1
    /\ hlast.pre[ArenaEnd].kind = "foreign"
    /\ vmas[ArenaEnd].kind = "foreign"
    /\ vmas[ArenaEnd].prot # hlast.pre[ArenaEnd].prot


---------------------------------------------------------------------------
(* Guest heaps.  The heap classes (BaseHeap, VirtualHeap) and the Memory   *)
(* object that owns them are not part of the sources at hand; they are     *)
(* modelled from the heap interface of the specification (heap map, VMM    *)
(* contract).  A heap keeps one entry per page; the model keeps the first  *)
(* pages of each virtual heap.                                             *)

\* 4 KiB pages of heap v00000000 that follow its first page
SmallPages == 2
\* 64 KiB pages of heap v40000000
LargePages == 1

Heaps == {"v00000000", "v40000000"}
heap_base(h) == IF h = "v00000000" THEN 0 ELSE 1073741824
page_size(h) == IF h = "v00000000" THEN 4096 ELSE 65536
heap_type(h) == IF h \in Heaps THEN "kGuestVirtual" ELSE "kGuestPhysical"
PageNumbers(h) == IF h = "v00000000" THEN 0 .. SmallPages ELSE 0 .. LargePages - 1

\* the virtual heaps cover the guest addresses below 0x7F000000, the
\* physical heaps the addresses from 0x80000000 (negative as a dword)
LookupHeap(address) ==
    IF address < 0 THEN "physical"
    ELSE IF address < 1073741824 THEN "v00000000"
    ELSE "v40000000"

LookupHeapByType(physical, page_size_) ==
    IF physical THEN "physical"
    ELSE IF page_size_ = 4096 THEN "v00000000" ELSE "v40000000"

round_up(value, multiple) ==
    IF value = 0 THEN multiple
    ELSE ((value + multiple - 1) \div multiple) * multiple

kMemoryProtectRead == "kMemoryProtectRead"
kMemoryProtectWrite == "kMemoryProtectWrite"
kMemoryAllocationReserve == "kMemoryAllocationReserve"
kMemoryAllocationCommit == "kMemoryAllocationCommit"

\* a page entry: the reservation the page belongs to (its first page and
\* its length), the protection of the page and its state.  The protection
\* the reservation was made with (allocation_protect) is not kept.
FreeEntry == [base_address |-> 0, region_page_count |-> 0,
              current_protect |-> {}, state |-> {}]

\* the pages [address, address + size) of heap h, as page numbers; the run
\* is empty when the address is not page aligned or leaves the heap
PageRun(h, address, size) ==
    LET ps == page_size(h)
        start == (address - heap_base(h)) \div ps
        count == round_up(size, ps) \div ps
    IN IF address < heap_base(h) \/ (address - heap_base(h)) % ps # 0 THEN {}
       ELSE IF start + count - 1 \notin PageNumbers(h) THEN {}
       ELSE start .. start + count - 1

PageOf(h, address) == (address - heap_base(h)) \div page_size(h)

SetPages(pt, h, run, f(_)) ==
    [pt EXCEPT ![h] = [n \in PageNumbers(h) |-> IF n \in run THEN f(n) ELSE pt[h][n]]]

\* BaseHeap::AllocFixed: reserve and/or commit the run at base_address.
\* A reservation needs free pages.  A commit alone is a commit over an
\* existing reservation (page state and protection are updated, the
\* reservation stays), or, over free pages, reserves the run as well.
HeapAllocFixed(pt, h, base_address, size, alignment, allocation_type, protect) ==
    LET run == PageRun(h, base_address, size)
        start == PageOf(h, base_address)
        allfree == \A n \in run : pt[h][n].state = {}
        onereservation ==
            \A n \in run : /\ kMemoryAllocationReserve \in pt[h][n].state
                           /\ pt[h][n].base_address = pt[h][start].base_address
        fresh == kMemoryAllocationReserve \in allocation_type \/ allfree
        ok == /\ run # {}
              /\ base_address % alignment = 0
              /\ allocation_type # {}
              /\ IF kMemoryAllocationReserve \in allocation_type THEN allfree
                 ELSE allfree \/ onereservation
        entry(n) ==
            [base_address |-> IF fresh THEN start ELSE pt[h][n].base_address,
             region_page_count |->
                 IF fresh THEN Cardinality(run) ELSE pt[h][n].region_page_count,
             current_protect |-> protect,
             state |-> {kMemoryAllocationReserve} \cup allocation_type]
    IN [ok |-> ok, page_table |-> IF ok THEN SetPages(pt, h, run, entry) ELSE pt]

\* BaseHeap::Alloc: find a free run of the size (the lowest, or with
\* top_down the highest), then reserve and/or commit it
HeapAlloc(pt, h, size, alignment, allocation_type, protect, top_down) ==
    LET ps == page_size(h)
        fits == {n \in PageNumbers(h) :
                    LET run == PageRun(h, heap_base(h) + n * ps, size)
                    IN run # {} /\ \A m \in run : pt[h][m].state = {}}
        start == IF top_down THEN CHOOSE n \in fits : \A m \in fits : m <= n
                 ELSE CHOOSE n \in fits : \A m \in fits : n <= m
        address == heap_base(h) + start * ps
    IN IF fits = {} \/ allocation_type = {}
       THEN [ok |-> FALSE, address |-> 0, page_table |-> pt]
       ELSE [ok |-> TRUE, address |-> address,
             page_table |-> HeapAllocFixed(pt, h, address, size, alignment,
                                {kMemoryAllocationReserve} \cup allocation_type,
                                protect).page_table]

\* BaseHeap::Decommit: the pages leave the committed state and stay reserved
HeapDecommit(pt, h, address, size) ==
    LET run == PageRun(h, address, size)
        entry(n) == [pt[h][n] EXCEPT !.state = @ \ {kMemoryAllocationCommit}]
    IN [ok |-> run # {},
        page_table |-> IF run # {} THEN SetPages(pt, h, run, entry) ELSE pt]

\* BaseHeap::Release: base_address has to be the start of a reservation;
\* the whole reservation becomes free and its size is reported
HeapRelease(pt, h, base_address) ==
    LET probe == PageRun(h, base_address, 1)
        n == PageOf(h, base_address)
        ok == /\ probe # {}
              /\ pt[h][n].state # {}
              /\ pt[h][n].base_address = n
        run == n .. n + pt[h][n].region_page_count - 1
        free(m) == FreeEntry
    IN [ok |-> ok,
        out_region_size |-> IF ok THEN pt[h][n].region_page_count * page_size(h) ELSE 0,
        page_table |-> IF ok THEN SetPages(pt, h, run, free) ELSE pt]

\* BaseHeap::Protect: the pages have to be committed pages of one
\* reservation; their protection becomes protect and the protection the
\* first page had is reported
HeapProtect(pt, h, address, size, protect) ==
    LET run == PageRun(h, address, size)
        n == PageOf(h, address)
        ok == /\ run # {}
              /\ \A m \in run : /\ kMemoryAllocationCommit \in pt[h][m].state
                                /\ pt[h][m].base_address = pt[h][n].base_address
        entry(m) == [pt[h][m] EXCEPT !.current_protect = protect]
    IN [ok |-> ok,
        old_protect |-> IF ok THEN pt[h][n].current_protect ELSE {},
        page_table |-> IF ok THEN SetPages(pt, h, run, entry) ELSE pt]

\* the pages from n on that belong to the reservation of n and share its
\* state and protection
RECURSIVE UniformRun(_, _, _, _)
UniformRun(pt, h, n, m) ==
    IF m \notin PageNumbers(h) THEN 0
    ELSE IF pt[h][m].base_address # pt[h][n].base_address
            \/ pt[h][m].state # pt[h][n].state
            \/ pt[h][m].current_protect # pt[h][n].current_protect THEN 0
    ELSE 1 + UniformRun(pt, h, n, m + 1)

\* BaseHeap::QueryRegionInfo
QueryRegionInfo(pt, h, base_address) ==
    LET n == PageOf(h, base_address)
        e == pt[h][n]
    IN IF h \notin Heaps \/ base_address < heap_base(h) \/ n \notin PageNumbers(h)
       THEN [ok |-> FALSE, base_address |-> 0, allocation_base |-> 0,
             region_size |-> 0, state |-> {}, protect |-> {}]
       ELSE [ok |-> TRUE,
             base_address |-> heap_base(h) + n * page_size(h),
             allocation_base |->
                 IF e.state = {} THEN 0
                 ELSE heap_base(h) + e.base_address * page_size(h),
             region_size |-> UniformRun(pt, h, n, n) * page_size(h),
             state |-> e.state,
             protect |-> e.current_protect]

\* Memory::Zero: memset of the guest range.  A page holds "zero" (all its
\* bytes are zero) or "data" (the bytes a guest store left there).
Zero(c, h, address, size) ==
    LET run == PageRun(h, address, size)
    IN [c EXCEPT ![h] = [n \in PageNumbers(h) |-> IF n \in run THEN "zero" ELSE c[h][n]]]

---------------------------------------------------------------------------
(* xboxkrnl_memory.cpp.  Flag words are the sets of the flags that are set *)
(* in them; every entry takes the VMM state s = [page_table, contents]     *)
(* and returns its status, the values it writes back and the state it      *)
(* leaves.                                                                 *)

ToXdkProtectFlags(protect) ==
    (IF kMemoryProtectRead \notin protect /\ kMemoryProtectWrite \notin protect
        THEN {"X_PAGE_NOACCESS"}
     ELSE IF kMemoryProtectRead \in protect /\ kMemoryProtectWrite \notin protect
        THEN {"X_PAGE_READONLY"}
     ELSE {"X_PAGE_READWRITE"})
    \cup (IF "kMemoryProtectNoCache" \in protect THEN {"X_PAGE_NOCACHE"} ELSE {})
    \cup (IF "kMemoryProtectWriteCombine" \in protect THEN {"X_PAGE_WRITECOMBINE"} ELSE {})

FromXdkProtectFlags(protect) ==
    (IF "X_PAGE_READONLY" \in protect \/ "X_PAGE_EXECUTE_READ" \in protect
        THEN {kMemoryProtectRead}
     ELSE IF "X_PAGE_READWRITE" \in protect \/ "X_PAGE_EXECUTE_READWRITE" \in protect
        THEN {kMemoryProtectRead, kMemoryProtectWrite}
     ELSE {})
    \cup (IF "X_PAGE_NOCACHE" \in protect THEN {"kMemoryProtectNoCache"} ELSE {})
    \cup (IF "X_PAGE_WRITECOMBINE" \in protect THEN {"kMemoryProtectWriteCombine"} ELSE {})

ExecuteBits == {"X_PAGE_EXECUTE", "X_PAGE_EXECUTE_READ",
                "X_PAGE_EXECUTE_READWRITE", "X_PAGE_EXECUTE_WRITECOPY"}

\* NtAllocateVirtualMemory, lines 133-136: the size the allocation is made
\* with
AdjustedSize_NoRound(region_size, page_size_) ==
    IF region_size < 0 THEN -region_size ELSE region_size

AdjustedSize(region_size, page_size_) ==
    round_up(IF region_size < 0 THEN -region_size ELSE region_size, page_size_)

\* NtAllocateVirtualMemory, lines 184-198: zero the committed range
ZeroIfNeeded_NoRestore(s, heap, address, adjusted_size, alloc_type, protect, was_commited) ==
    IF "X_MEM_NOZERO" \notin alloc_type /\ "X_MEM_COMMIT" \in alloc_type
    THEN LET raise == kMemoryProtectWrite \notin protect
             pt1 == IF raise
                    THEN HeapProtect(s.page_table, heap, address, adjusted_size,
                                     {kMemoryProtectRead, kMemoryProtectWrite}).page_table
                    ELSE s.page_table
         IN [page_table |-> pt1,
             contents |-> IF ~was_commited
                          THEN Zero(s.contents, heap, address, adjusted_size)
                          ELSE s.contents,
             steps |-> (IF raise THEN <<"Protect read-write">> ELSE <<>>)
                       \o (IF ~was_commited THEN <<"Zero">> ELSE <<>>)]
    ELSE [page_table |-> s.page_table, contents |-> s.contents, steps |-> <<>>]

ZeroIfNeeded(s, heap, address, adjusted_size, alloc_type, protect, was_commited) ==
    IF "X_MEM_NOZERO" \notin alloc_type /\ "X_MEM_COMMIT" \in alloc_type
    THEN LET raise == kMemoryProtectWrite \notin protect
             pt1 == IF raise
                    THEN HeapProtect(s.page_table, heap, address, adjusted_size,
                                     {kMemoryProtectRead, kMemoryProtectWrite}).page_table
                    ELSE s.page_table
             pt2 == IF raise
                    THEN HeapProtect(pt1, heap, address, adjusted_size, protect).page_table
                    ELSE pt1
         IN [page_table |-> pt2,
             contents |-> IF ~was_commited
                          THEN Zero(s.contents, heap, address, adjusted_size)
                          ELSE s.contents,
             steps |-> (IF raise THEN <<"Protect read-write">> ELSE <<>>)
                       \o (IF ~was_commited THEN <<"Zero">> ELSE <<>>)
                       \o (IF raise THEN <<"Protect requested">> ELSE <<>>)]
    ELSE [page_table |-> s.page_table, contents |-> s.contents, steps |-> <<>>]

NoInfo == [base_address |-> 0, allocation_base |-> 0,
           region_size |-> 0, state |-> "", protect |-> {}, type |-> ""]

\* what an entry hands back: the status, the dwords behind base_addr_ptr and
\* region_size_ptr after the call, the old protection (NtProtect), the
\* MEMORY_BASIC_INFORMATION (NtQuery), the state it leaves and the heap and
\* memory operations of its zeroing step, in order
NtResult(status, base_addr, region_size, s, steps) ==
    [status |-> status, base_addr |-> base_addr, region_size |-> region_size,
     old_protect |-> {}, info |-> NoInfo,
     page_table |-> s.page_table, contents |-> s.contents, steps |-> steps]

\* an allocation that leaves in the page state only the bits the guest
\* asked for
NtAllocateVirtualMemory_RequestedBits(s, base_addr, region_size, alloc_type, protect_bits) ==
    LET page_size_ == IF base_addr # 0 THEN page_size(LookupHeap(base_addr)) ELSE 4096
        adjusted_base == base_addr - (base_addr % page_size_)
        adjusted_size == AdjustedSize(region_size, page_size_)
        heap == LookupHeap(adjusted_base)
        allocation_type ==
            (IF "X_MEM_RESERVE" \in alloc_type THEN {kMemoryAllocationReserve} ELSE {})
            \cup (IF "X_MEM_COMMIT" \in alloc_type THEN {kMemoryAllocationCommit} ELSE {})
        fixed == HeapAllocFixed(s.page_table, heap, adjusted_base, adjusted_size,
                                page_size_, allocation_type, FromXdkProtectFlags(protect_bits))
        run == PageRun(heap, adjusted_base, adjusted_size)
        pt == [fixed.page_table EXCEPT ![heap] =
                  [n \in PageNumbers(heap) |->
                      IF n \in run THEN [@[n] EXCEPT !.state = allocation_type] ELSE @[n]]]
    IN IF base_addr = 0 \/ region_size = 0 \/ ~fixed.ok
       THEN NtResult("X_STATUS_NO_MEMORY", base_addr, region_size, s, <<>>)
       ELSE NtResult("X_STATUS_SUCCESS", adjusted_base, adjusted_size,
                     [page_table |-> pt, contents |-> s.contents], <<>>)

NtAllocateVirtualMemory_entry(s, base_addr, region_size, alloc_type, protect_bits) ==
    LET unchanged(status) == NtResult(status, base_addr, region_size, s, <<>>)
        page_size_ == IF base_addr # 0 THEN page_size(LookupHeap(base_addr))
                      ELSE IF "X_MEM_LARGE_PAGES" \in alloc_type THEN 65536
                      ELSE 4096
        adjusted_base == base_addr - (base_addr % page_size_)
        adjusted_size == AdjustedSize(region_size, page_size_)
        allocation_type ==
            (IF "X_MEM_RESERVE" \in alloc_type THEN {kMemoryAllocationReserve} ELSE {})
            \cup (IF "X_MEM_COMMIT" \in alloc_type THEN {kMemoryAllocationCommit} ELSE {})
        protect == FromXdkProtectFlags(protect_bits)
        heap == IF adjusted_base # 0 THEN LookupHeap(adjusted_base)
                ELSE LookupHeapByType(FALSE, page_size_)
        prev_alloc_info == QueryRegionInfo(s.page_table, heap, adjusted_base)
        was_commited == /\ adjusted_base # 0
                        /\ prev_alloc_info.ok
                        /\ kMemoryAllocationCommit \in prev_alloc_info.state
        fixed == HeapAllocFixed(s.page_table, heap, adjusted_base, adjusted_size,
                                page_size_, allocation_type, protect)
        any == HeapAlloc(s.page_table, heap, adjusted_size, page_size_,
                         allocation_type, protect, "X_MEM_TOP_DOWN" \in alloc_type)
        address == IF adjusted_base # 0
                   THEN (IF fixed.ok THEN adjusted_base ELSE 0)
                   ELSE any.address
        allocated == [page_table |-> IF adjusted_base # 0 THEN fixed.page_table
                                     ELSE any.page_table,
                      contents |-> s.contents]
        z == ZeroIfNeeded(allocated, heap, address, adjusted_size, alloc_type,
                          protect, was_commited)
    IN IF region_size = 0 THEN unchanged("X_STATUS_INVALID_PARAMETER")
       ELSE IF alloc_type \cap {"X_MEM_COMMIT", "X_MEM_RESET", "X_MEM_RESERVE"} = {}
          THEN unchanged("X_STATUS_INVALID_PARAMETER")
       ELSE IF "X_MEM_RESET" \in alloc_type /\ alloc_type \ {"X_MEM_RESET"} # {}
          THEN unchanged("X_STATUS_INVALID_PARAMETER")
       ELSE IF base_addr # 0 /\ heap_type(LookupHeap(base_addr)) # "kGuestVirtual"
          THEN unchanged("X_STATUS_INVALID_PARAMETER")
       ELSE IF adjusted_base # 0 /\ page_size(heap) # page_size_
          THEN unchanged("X_STATUS_ACCESS_DENIED")
       ELSE IF address = 0 THEN unchanged("X_STATUS_NO_MEMORY")
       ELSE NtResult("X_STATUS_SUCCESS", address, adjusted_size, z, z.steps)

NtProtectVirtualMemory_entry(s, base_addr, region_size, protect_bits) ==
    LET unchanged(status) == NtResult(status, base_addr, region_size, s, <<>>)
        heap == LookupHeap(base_addr)
        adjusted_base == base_addr - (base_addr % page_size(heap))
        adjusted_size == round_up(region_size, page_size(heap))
        protect == FromXdkProtectFlags(protect_bits)
        p == HeapProtect(s.page_table, heap, adjusted_base, adjusted_size, protect)
    IN IF region_size = 0 THEN unchanged("X_STATUS_INVALID_PARAMETER")
       ELSE IF protect_bits \cap ExecuteBits # {} THEN unchanged("X_STATUS_ACCESS_DENIED")
       ELSE IF heap_type(heap) # "kGuestVirtual"
          THEN unchanged("X_STATUS_INVALID_PARAMETER")
       ELSE IF ~p.ok THEN unchanged("X_STATUS_ACCESS_DENIED")
       ELSE [NtResult("X_STATUS_SUCCESS", adjusted_base, adjusted_size,
                      [page_table |-> p.page_table, contents |-> s.contents], <<>>)
                EXCEPT !.old_protect = p.old_protect]

\* a decommit that releases the reservation
NtFreeVirtualMemory_AlwaysRelease(s, base_addr_value, region_size_value, free_type) ==
    LET unchanged(status) == NtResult(status, base_addr_value, region_size_value, s, <<>>)
        heap == LookupHeap(base_addr_value)
        rel == HeapRelease(s.page_table, heap, base_addr_value)
    IN IF base_addr_value = 0 THEN unchanged("X_STATUS_MEMORY_NOT_ALLOCATED")
       ELSE IF heap_type(heap) # "kGuestVirtual"
          THEN unchanged("X_STATUS_INVALID_PARAMETER")
       ELSE IF ~rel.ok THEN unchanged("X_STATUS_UNSUCCESSFUL")
       ELSE NtResult("X_STATUS_SUCCESS", base_addr_value, rel.out_region_size,
                     [page_table |-> rel.page_table, contents |-> s.contents], <<>>)

NtFreeVirtualMemory_entry(s, base_addr_value, region_size_value, free_type) ==
    LET unchanged(status) == NtResult(status, base_addr_value, region_size_value, s, <<>>)
        heap == LookupHeap(base_addr_value)
        rounded == round_up(region_size_value, page_size(heap))
        dec == HeapDecommit(s.page_table, heap, base_addr_value, rounded)
        rel == HeapRelease(s.page_table, heap, base_addr_value)
        result == IF free_type = {"X_MEM_DECOMMIT"} THEN dec.ok ELSE rel.ok
    IN IF base_addr_value = 0 THEN unchanged("X_STATUS_MEMORY_NOT_ALLOCATED")
       ELSE IF heap_type(heap) # "kGuestVirtual"
          THEN unchanged("X_STATUS_INVALID_PARAMETER")
       ELSE IF ~result THEN unchanged("X_STATUS_UNSUCCESSFUL")
       ELSE IF free_type = {"X_MEM_DECOMMIT"}
          THEN NtResult("X_STATUS_SUCCESS", base_addr_value, rounded,
                        [page_table |-> dec.page_table, contents |-> s.contents], <<>>)
       ELSE NtResult("X_STATUS_SUCCESS", base_addr_value, rel.out_region_size,
                     [page_table |-> rel.page_table, contents |-> s.contents], <<>>)

NtQueryVirtualMemory_entry(s, base_address) ==
    LET heap == LookupHeap(base_address)
        alloc_info == QueryRegionInfo(s.page_table, heap, base_address)
        x_state == IF kMemoryAllocationCommit \in alloc_info.state THEN "X_MEM_COMMIT"
                   ELSE IF kMemoryAllocationReserve \in alloc_info.state
                      THEN "X_MEM_RESERVE"
                   ELSE "X_MEM_FREE"
    IN IF ~alloc_info.ok
       THEN NtResult("X_STATUS_INVALID_PARAMETER", base_address, 0, s, <<>>)
       ELSE [NtResult("X_STATUS_SUCCESS", base_address, 0, s, <<>>)
                EXCEPT !.info =
                    [base_address |-> alloc_info.base_address,
                     allocation_base |-> alloc_info.allocation_base,
                     region_size |-> alloc_info.region_size,
                     state |-> x_state,
                     protect |-> ToXdkProtectFlags(alloc_info.protect),
                     type |-> "X_MEM_PRIVATE"]]

---------------------------------------------------------------------------
(* The guest calling the Nt*VirtualMemory entries, one whole call at a     *)
(* time.  A call leaves its arguments, what it handed back and the state   *)
(* it started from in nlast; NtReturn takes the guest to its next call.    *)

NtNoCall == [op |-> "none", base |-> 0, size |-> 0, type |-> {}, protect_bits |-> {},
             again |-> FALSE, status |-> "", out_base |-> 0, out_size |-> 0,
             old_protect |-> {}, info |-> NoInfo, steps |-> <<>>, pre |-> <<>>]

VmmState == [page_table |-> page_table, contents |-> contents]

\* at start-up the heaps are empty but for the first page of v00000000,
\* which the runtime reserves so that no allocation is placed at address 0
GuardEntry == [base_address |-> 0, region_page_count |-> 1,
               current_protect |-> {},
               state |-> {kMemoryAllocationReserve}]

VmmIdle == page_table = <<>> /\ contents = <<>> /\ nlast = NtNoCall

VmmInit ==
    /\ page_table = [h \in Heaps |-> [n \in PageNumbers(h) |->
                        IF h = "v00000000" /\ n = 0 THEN GuardEntry ELSE FreeEntry]]
    /\ contents = [h \in Heaps |-> [n \in PageNumbers(h) |-> "zero"]]
    /\ nlast = NtNoCall

NtCall(op, base, size, type, protect_bits, again, r) ==
    /\ page_table' = r.page_table
    /\ contents' = r.contents
    /\ nlast' = [op |-> op, base |-> base, size |-> size, type |-> type,
                 protect_bits |-> protect_bits, again |-> again,
                 status |-> r.status, out_base |-> r.base_addr,
                 out_size |-> r.region_size, old_protect |-> r.old_protect,
                 info |-> r.info, steps |-> r.steps, pre |-> VmmState]
    /\ UNCHANGED notVmm

\* guest addresses of heap v00000000: the page starts after the first
\* page, and an address in the middle of a page
SmallBases == {4096 * k : k \in 1 .. SmallPages}
MidPage == 4096 + 2048
\* an address of a physical heap (0xA0000000)
PhysicalBase == -1610612736
\* sizes of whole pages, and of a single byte
SmallSizes == {4096 * k : k \in 1 .. SmallPages} \cup {1}

ProtectBits == {{"X_PAGE_NOACCESS"}, {"X_PAGE_READONLY"}, {"X_PAGE_READWRITE"}}
AllocTypes == {{"X_MEM_RESERVE"}, {"X_MEM_COMMIT"}, {"X_MEM_RESERVE", "X_MEM_COMMIT"},
               {"X_MEM_RESERVE", "X_MEM_COMMIT", "X_MEM_TOP_DOWN"}}
ZeroTypes == {{"X_MEM_RESERVE"}, {"X_MEM_COMMIT"}, {"X_MEM_RESERVE", "X_MEM_COMMIT"},
              {"X_MEM_COMMIT", "X_MEM_NOZERO"}}

NtAllocate(bases, sizes, types, bits) ==
    /\ nlast.op = "none"
    /\ \E base \in bases, size \in sizes, alloc_type \in types, protect_bits \in bits :
          NtCall("NtAllocateVirtualMemory", base, size, alloc_type, protect_bits, FALSE,
                 NtAllocateVirtualMemory_entry(VmmState, base, size, alloc_type,
                                               protect_bits))

NtProtect(bases, sizes, bits) ==
    /\ nlast.op = "none"
    /\ \E base \in bases, size \in sizes, protect_bits \in bits :
          NtCall("NtProtectVirtualMemory", base, size, {}, protect_bits, FALSE,
                 NtProtectVirtualMemory_entry(VmmState, base, size, protect_bits))

NtFree(bases, sizes) ==
    /\ nlast.op = "none"
    /\ \E base \in bases, size \in sizes,
          free_type \in {{"X_MEM_DECOMMIT"}, {"X_MEM_RELEASE"}} :
          NtCall("NtFreeVirtualMemory", base, size, free_type, {}, FALSE,
                 NtFreeVirtualMemory_entry(VmmState, base, size, free_type))

\* the release that has just returned is made once more, with the base
\* and region size the call before left in the guest's variables
NtFreeAgain ==
    /\ nlast.op = "NtFreeVirtualMemory" /\ nlast.type = {"X_MEM_RELEASE"}
    /\ nlast.status = "X_STATUS_SUCCESS" \/ nlast.again
    /\ NtCall("NtFreeVirtualMemory", nlast.out_base, nlast.out_size, nlast.type, {},
              TRUE,
              NtFreeVirtualMemory_entry(VmmState, nlast.out_base, nlast.out_size,
                                        nlast.type))

NtQuery(bases) ==
    /\ nlast.op = "none"
    /\ \E base \in bases :
          NtCall("NtQueryVirtualMemory", base, 0, {}, {}, FALSE,
                 NtQueryVirtualMemory_entry(VmmState, base))

\* a guest store to a committed, writable page
GuestStore ==
    /\ nlast.op = "none"
    /\ \E h \in Heaps : \E n \in PageNumbers(h) :
          /\ kMemoryAllocationCommit \in page_table[h][n].state
          /\ kMemoryProtectWrite \in page_table[h][n].current_protect
          /\ contents' = [contents EXCEPT ![h][n] = "data"]
    /\ UNCHANGED <<page_table, nlast>>
    /\ UNCHANGED notVmm

NtReturn ==
    /\ nlast.op # "none"
    /\ nlast' = NtNoCall
    /\ UNCHANGED <<page_table, contents>>
    /\ UNCHANGED notVmm

---------------------------------------------------------------------------
(* Two guest threads in the Nt*VirtualMemory entries.  The entries take no *)
(* lock of their own: each heap call (QueryRegionInfo, AllocFixed,         *)
(* Protect, Decommit, Release) and the Zero of a range is one step, and    *)
(* the steps of the two threads interleave.  The threads start their       *)
(* calls together (Begin) from the state kept in round; when both have     *)
(* returned, Finish takes them to their next calls.                        *)

Threads == {1, 2}

Idle == [pc |-> "idle", call |-> <<>>, was_commited |-> FALSE, status |-> "",
         fault |-> FALSE]

ConcInit ==
    /\ threads = [t \in Threads |-> Idle]
    /\ round = <<>>

ConcIdle == ConcInit

ConcBits == {{"X_PAGE_READONLY"}, {"X_PAGE_READWRITE"}}
AllocCalls(base) ==
    [op : {"NtAllocateVirtualMemory"}, base : {base}, size : {4096},
     type : {{"X_MEM_COMMIT"}, {"X_MEM_RESERVE", "X_MEM_COMMIT"}}, bits : ConcBits]
ProtectCalls(base) ==
    [op : {"NtProtectVirtualMemory"}, base : {base}, size : {4096},
     type : {{}}, bits : ConcBits]
FreeCalls(base) ==
    [op : {"NtFreeVirtualMemory"}, base : {base}, size : {4096},
     type : {{"X_MEM_DECOMMIT"}, {"X_MEM_RELEASE"}}, bits : {{}}]

Crashed == \E t \in Threads : threads[t].fault
AllDone == \A t \in Threads : threads[t].pc = "done"

\* both threads enter an entry with ranges at the same base
Begin ==
    /\ \A t \in Threads : threads[t].pc = "idle"
    /\ \E base \in SmallBases :
       \E c1 \in AllocCalls(base),
          c2 \in AllocCalls(base) \cup ProtectCalls(base) \cup FreeCalls(base) :
          threads' = [t \in Threads |->
              LET c == IF t = 1 THEN c1 ELSE c2
              IN [Idle EXCEPT !.call = c,
                     !.pc = IF c.op = "NtAllocateVirtualMemory" THEN "query"
                            ELSE "call"]]
    /\ round' = VmmState
    /\ UNCHANGED <<page_table, contents>>
    /\ UNCHANGED notConc

\* the locals of NtAllocateVirtualMemory in thread t
ThreadHeap(t) == LookupHeap(threads[t].call.base)
ThreadSize(t) == AdjustedSize(threads[t].call.size, page_size(ThreadHeap(t)))
ThreadProtect(t) == FromXdkProtectFlags(threads[t].call.bits)
ThreadZeroes(t) ==
    /\ "X_MEM_NOZERO" \notin threads[t].call.type
    /\ "X_MEM_COMMIT" \in threads[t].call.type
ThreadRaises(t) == kMemoryProtectWrite \notin ThreadProtect(t)

\* NtAllocateVirtualMemory, lines 162-163
StepQuery(t) ==
    /\ threads[t].pc = "query" /\ ~Crashed
    /\ LET prev_alloc_info ==
               QueryRegionInfo(page_table, ThreadHeap(t), threads[t].call.base)
       IN threads' = [threads EXCEPT
              ![t].was_commited =
                  prev_alloc_info.ok /\ kMemoryAllocationCommit \in prev_alloc_info.state,
              ![t].pc = "alloc"]
    /\ UNCHANGED <<page_table, contents, round>>
    /\ UNCHANGED notConc

\* NtAllocateVirtualMemory, lines 169-182
StepAllocFixed(t) ==
    /\ threads[t].pc = "alloc" /\ ~Crashed
    /\ LET c == threads[t].call
           allocation_type ==
               (IF "X_MEM_RESERVE" \in c.type THEN {kMemoryAllocationReserve} ELSE {})
               \cup (IF "X_MEM_COMMIT" \in c.type THEN {kMemoryAllocationCommit} ELSE {})
           fixed == HeapAllocFixed(page_table, ThreadHeap(t), c.base, ThreadSize(t),
                                   page_size(ThreadHeap(t)), allocation_type,
                                   ThreadProtect(t))
       IN /\ page_table' = fixed.page_table
          /\ threads' = [threads EXCEPT
                 ![t].status = IF fixed.ok THEN "X_STATUS_SUCCESS"
                               ELSE "X_STATUS_NO_MEMORY",
                 ![t].pc = IF ~fixed.ok \/ ~ThreadZeroes(t) THEN "done"
                           ELSE IF ThreadRaises(t) THEN "raise"
                           ELSE IF ~threads[t].was_commited THEN "zero"
                           ELSE "done"]
    /\ UNCHANGED <<contents, round>>
    /\ UNCHANGED notConc

\* NtAllocateVirtualMemory, lines 187-190
StepRaise(t) ==
    /\ threads[t].pc = "raise" /\ ~Crashed
    /\ page_table' = HeapProtect(page_table, ThreadHeap(t), threads[t].call.base,
                                 ThreadSize(t),
                                 {kMemoryProtectRead, kMemoryProtectWrite}).page_table
    /\ threads' = [threads EXCEPT
           ![t].pc = IF ~threads[t].was_commited THEN "zero" ELSE "restore"]
    /\ UNCHANGED <<contents, round>>
    /\ UNCHANGED notConc

\* NtAllocateVirtualMemory, lines 191-193.  The memset of a page that is
\* not committed, or not writable, at this moment is a host access fault.
StepZero(t) ==
    /\ threads[t].pc = "zero" /\ ~Crashed
    /\ LET h == ThreadHeap(t)
           run == PageRun(h, threads[t].call.base, ThreadSize(t))
           writable(n) == /\ kMemoryAllocationCommit \in page_table[h][n].state
                          /\ kMemoryProtectWrite \in page_table[h][n].current_protect
       IN IF \A n \in run : writable(n)
          THEN /\ contents' = Zero(contents, h, threads[t].call.base, ThreadSize(t))
               /\ threads' = [threads EXCEPT
                      ![t].pc = IF ThreadRaises(t) THEN "restore" ELSE "done"]
          ELSE /\ contents' = contents
               /\ threads' = [threads EXCEPT ![t].fault = TRUE]
    /\ UNCHANGED <<page_table, round>>
    /\ UNCHANGED notConc

\* NtAllocateVirtualMemory, lines 194-196
StepRestore(t) ==
    /\ threads[t].pc = "restore" /\ ~Crashed
    /\ page_table' = HeapProtect(page_table, ThreadHeap(t), threads[t].call.base,
                                 ThreadSize(t), ThreadProtect(t)).page_table
    /\ threads' = [threads EXCEPT ![t].pc = "done"]
    /\ UNCHANGED <<contents, round>>
    /\ UNCHANGED notConc

\* NtProtectVirtualMemory and NtFreeVirtualMemory make one heap call
StepCall(t) ==
    /\ threads[t].pc = "call" /\ ~Crashed
    /\ LET c == threads[t].call
           r == IF c.op = "NtProtectVirtualMemory"
                THEN NtProtectVirtualMemory_entry(VmmState, c.base, c.size, c.bits)
                ELSE NtFreeVirtualMemory_entry(VmmState, c.base, c.size, c.type)
       IN /\ page_table' = r.page_table
          /\ contents' = r.contents
          /\ threads' = [threads EXCEPT ![t].status = r.status, ![t].pc = "done"]
    /\ UNCHANGED round
    /\ UNCHANGED notConc

Finish ==
    /\ AllDone
    /\ threads' = [t \in Threads |-> Idle]
    /\ round' = <<>>
    /\ UNCHANGED <<page_table, contents>>
    /\ UNCHANGED notConc

\* between the calls a thread stores to a committed, writable page
ConcStore ==
    /\ \A t \in Threads : threads[t].pc = "idle"
    /\ \E h \in Heaps : \E n \in PageNumbers(h) :
          /\ kMemoryAllocationCommit \in page_table[h][n].state
          /\ kMemoryProtectWrite \in page_table[h][n].current_protect
          /\ contents' = [contents EXCEPT ![h][n] = "data"]
    /\ UNCHANGED <<page_table, threads, round>>
    /\ UNCHANGED notConc

ConcNext ==
    \/ Begin
    \/ \E t \in Threads : StepQuery(t)
    \/ \E t \in Threads : StepAllocFixed(t)
    \/ \E t \in Threads : StepRaise(t)
    \/ \E t \in Threads : StepZero(t)
    \/ \E t \in Threads : StepRestore(t)
    \/ \E t \in Threads : StepCall(t)
    \/ Finish
    \/ ConcStore

---------------------------------------------------------------------------
(* Claims about the Nt*VirtualMemory entries.                              *)

Succeeded == nlast.status = "X_STATUS_SUCCESS"
\* the heap and the pages of the range the last call was made with
LastHeap == LookupHeap(nlast.base)
LastRun == PageRun(LastHeap, nlast.base, nlast.size)
\* the heap and the pages of the range the last call handed back
OutHeap == LookupHeap(nlast.out_base)
OutRun == PageRun(OutHeap, nlast.out_base, nlast.out_size)

ReservationAt(pt, address) ==
    LET h == LookupHeap(address)
    IN /\ PageRun(h, address, 1) # {}
       /\ pt[h][PageOf(h, address)].state # {}
       /\ pt[h][PageOf(h, address)].base_address = PageOf(h, address)

\* C1 as stated: the first release of a reservation at a succeeds, and every
\* release of a that follows it with no allocation in between fails with
\* the status MemoryNotAllocated.  (a # 0: no allocation is made at 0.)
C1_AsStated ==
    (/\ nlast.op = "NtFreeVirtualMemory" /\ nlast.type = {"X_MEM_RELEASE"}
     /\ nlast.base # 0) =>
        /\ (~nlast.again /\ ReservationAt(nlast.pre.page_table, nlast.base)) => Succeeded
        /\ nlast.again => nlast.status = "X_STATUS_MEMORY_NOT_ALLOCATED"

InsideReservation(pt, h, run) ==
    /\ run # {}
    /\ \A n \in run, m \in run :
          /\ kMemoryAllocationReserve \in pt[h][n].state
          /\ pt[h][n].base_address = pt[h][m].base_address

\* C3: after a successful decommit of a range inside a reservation every
\* page of the range is reserved and not committed, a query of any address
\* of the range reports X_MEM_RESERVE, and a commit of the range succeeds
\* and leaves the pages in the reservation they were in.
C3_DecommitKeepsReservation ==
    (/\ nlast.op = "NtFreeVirtualMemory" /\ nlast.type = {"X_MEM_DECOMMIT"}
     /\ Succeeded
     /\ InsideReservation(nlast.pre.page_table, LastHeap, LastRun)) =>
        LET h == LastHeap
            ps == page_size(h)
            recommit == NtAllocateVirtualMemory_entry(VmmState, nlast.base, nlast.size,
                            {"X_MEM_COMMIT"}, {"X_PAGE_READWRITE"})
        IN /\ \A n \in LastRun :
                 /\ page_table[h][n].state = {kMemoryAllocationReserve}
                 /\ \A off \in {0, 1, ps - 1} :
                       LET q == NtQueryVirtualMemory_entry(VmmState,
                                    heap_base(h) + n * ps + off)
                       IN q.status = "X_STATUS_SUCCESS" /\ q.info.state = "X_MEM_RESERVE"
           /\ recommit.status = "X_STATUS_SUCCESS"
           /\ \A n \in LastRun :
                 /\ kMemoryAllocationCommit \in recommit.page_table[h][n].state
                 /\ recommit.page_table[h][n].base_address
                        = nlast.pre.page_table[h][n].base_address
                 /\ recommit.page_table[h][n].region_page_count
                        = nlast.pre.page_table[h][n].region_page_count

\* a committed page of a two-page reservation has been decommitted
C3_Witness ==
    /\ nlast.op = "NtFreeVirtualMemory" /\ nlast.type = {"X_MEM_DECOMMIT"}
    /\ Succeeded
    /\ InsideReservation(nlast.pre.page_table, LastHeap, LastRun)
    /\ \E n \in LastRun :
          /\ kMemoryAllocationCommit \in nlast.pre.page_table[LastHeap][n].state
          /\ nlast.pre.page_table[LastHeap][n].region_page_count > Cardinality(LastRun)

CommitCall ==
    /\ nlast.op = "NtAllocateVirtualMemory" /\ Succeeded
    /\ "X_MEM_COMMIT" \in nlast.type

Requested == FromXdkProtectFlags(nlast.protect_bits)
FinalProtectionIsRequested ==
    \A n \in OutRun : page_table[OutHeap][n].current_protect = Requested
\* the page at the base the call returned was committed before the call
WasCommitted ==
    kMemoryAllocationCommit
        \in nlast.pre.page_table[OutHeap][PageOf(OutHeap, nlast.out_base)].state

\* C6 as stated: a commit with X_MEM_NOZERO modifies no byte; a commit
\* without it whose protection lacks write raises the protection to
\* read-write, zeroes, restores, and returns with the requested protection.
C6_AsStated ==
    CommitCall =>
        /\ "X_MEM_NOZERO" \in nlast.type => contents = nlast.pre.contents
        /\ ("X_MEM_NOZERO" \notin nlast.type /\ kMemoryProtectWrite \notin Requested) =>
              /\ nlast.steps = <<"Protect read-write", "Zero", "Protect requested">>
              /\ FinalProtectionIsRequested

\* C6 amended: as C6, but the zeroing step is left out when the page at
\* the base was committed before the call.
C6_ZeroOnCommit ==
    CommitCall =>
        /\ "X_MEM_NOZERO" \in nlast.type => contents = nlast.pre.contents
        /\ ("X_MEM_NOZERO" \notin nlast.type /\ kMemoryProtectWrite \notin Requested) =>
              /\ nlast.steps =
                    IF WasCommitted
                    THEN <<"Protect read-write", "Protect requested">>
                    ELSE <<"Protect read-write", "Zero", "Protect requested">>
              /\ ~WasCommitted => \A n \in OutRun : contents[OutHeap][n] = "zero"
              /\ FinalProtectionIsRequested

\* a read-only commit has zeroed a page that held guest data
C6_Witness ==
    /\ CommitCall
    /\ "X_MEM_NOZERO" \notin nlast.type /\ kMemoryProtectWrite \notin Requested
    /\ ~WasCommitted
    /\ \E n \in OutRun : nlast.pre.contents[OutHeap][n] = "data"

\* a commit with X_MEM_NOZERO has returned a page that holds guest data
C6_WitnessNoZero ==
    /\ CommitCall /\ "X_MEM_NOZERO" \in nlast.type
    /\ \E n \in OutRun : contents[OutHeap][n] = "data"

\* a <= b for dwords read as unsigned
UnsignedLe(a, b) == IF (a < 0) = (b < 0) THEN a <= b ELSE b < 0
Magnitude(x) == IF x < 0 THEN -x ELSE x


\* page n of the heap the call returned was committed before the call
CommittedBefore(n) == kMemoryAllocationCommit \in nlast.pre.page_table[OutHeap][n].state
ZeroingCommit == CommitCall /\ "X_MEM_NOZERO" \notin nlast.type

\* C27: NtAllocateVirtualMemory with commit and without X_MEM_NOZERO over
\* one or more pages leaves every page that was committed already as it
\* was and zeroes every page of the range that was not committed before.
C27_AsStated ==
    ZeroingCommit =>
        \A n \in OutRun :
            contents[OutHeap][n] = IF CommittedBefore(n)
                                   THEN nlast.pre.contents[OutHeap][n] ELSE "zero"
\* what the code does: the page at the base decides for the whole range
C27_FirstPageDecides ==
    ZeroingCommit =>
        \A n \in OutRun :
            contents[OutHeap][n] = IF WasCommitted
                                   THEN nlast.pre.contents[OutHeap][n] ELSE "zero"
\* a committed page behind an uncommitted first page has lost its data
C27_WitnessDataLost ==
    /\ ZeroingCommit /\ ~WasCommitted
    /\ \E n \in OutRun :
          /\ CommittedBefore(n) /\ nlast.pre.contents[OutHeap][n] = "data"
          /\ contents[OutHeap][n] = "zero"
\* an uncommitted page behind a committed first page is committed unzeroed
C27_WitnessNotZeroed ==
    /\ ZeroingCommit /\ WasCommitted
    /\ \E n \in OutRun : ~CommittedBefore(n) /\ contents[OutHeap][n] = "data"
\* over a single page the claim holds
C27_SinglePage ==
    ZeroingCommit /\ Cardinality(OutRun) = 1 =>
        \A n \in OutRun :
            contents[OutHeap][n] = IF CommittedBefore(n)
                                   THEN nlast.pre.contents[OutHeap][n] ELSE "zero"

\* C7 as stated: a successful NtAllocateVirtualMemory writes back a base
\* that is a multiple of the heap page size and a region size that is a
\* multiple of the page size and at least the requested size.
C7_AsStated ==
    (nlast.op = "NtAllocateVirtualMemory" /\ Succeeded) =>
        /\ nlast.out_base % page_size(OutHeap) = 0
        /\ nlast.out_size % page_size(OutHeap) = 0
        /\ UnsignedLe(nlast.size, nlast.out_size)

\* C7 amended: the region size written back is at least the magnitude of
\* the requested size read as a signed 32-bit integer.
C7_Rounding ==
    (nlast.op = "NtAllocateVirtualMemory" /\ Succeeded) =>
        /\ nlast.out_base % page_size(OutHeap) = 0
        /\ nlast.out_size % page_size(OutHeap) = 0
        /\ nlast.out_size >= Magnitude(nlast.size)
        /\ nlast.out_size > 0

\* an allocation of 64 KiB pages made with a base and a size that are no
\* multiples of the page size
C7_Witness ==
    /\ nlast.op = "NtAllocateVirtualMemory" /\ Succeeded
    /\ page_size(OutHeap) = 65536
    /\ nlast.base # nlast.out_base /\ nlast.base # 0
    /\ nlast.size # nlast.out_size

\* an allocation made with a negative size
C7_WitnessNegative ==
    /\ nlast.op = "NtAllocateVirtualMemory" /\ Succeeded
    /\ nlast.size < 0

\* the state a whole call leaves
ApplyCall(s, c) ==
    LET r == IF c.op = "NtAllocateVirtualMemory"
             THEN NtAllocateVirtualMemory_entry(s, c.base, c.size, c.type, c.bits)
             ELSE IF c.op = "NtProtectVirtualMemory"
             THEN NtProtectVirtualMemory_entry(s, c.base, c.size, c.bits)
             ELSE NtFreeVirtualMemory_entry(s, c.base, c.size, c.type)
    IN [page_table |-> r.page_table, contents |-> r.contents]

SerialOutcomes ==
    { ApplyCall(ApplyCall(round, threads[1].call), threads[2].call),
      ApplyCall(ApplyCall(round, threads[2].call), threads[1].call) }

\* C8 as stated: when the concurrent calls of the two threads have
\* returned, the page states, protections and memory contents are those
\* one of the two serial orders of the whole calls leaves.
C8_AsStated == AllDone => VmmState \in SerialOutcomes

---------------------------------------------------------------------------
(* The global lock behind mtmsrd and mfmsr.  build_mtmsrd and build_mfmsr  *)
(* give the statements the recompiler emits; a guest thread runs them.     *)
(* The mutex of global_critical_region is a recursive mutex: lock() waits  *)
(* until no other thread owns it.                                          *)

\* deepest nesting of the critical section, and lowest counter value, the
\* threads are taken to
MaxNesting == 2

LockThreads == {1, 2}

build_mfmsr(cfg) ==
    IF ~cfg.skipMsr THEN <<"atomic_thread_fence", "PPC_CHECK_GLOBAL_LOCK">> ELSE <<>>

build_mtmsrd(cfg, src_reg) ==
    IF ~cfg.skipMsr
    THEN <<"atomic_thread_fence", "ctx.msr",
           IF src_reg = 13 THEN "PPC_ENTER_GLOBAL_LOCK" ELSE "PPC_LEAVE_GLOBAL_LOCK">>
    ELSE <<>>

Emits(code, statement) == \E i \in DOMAIN code : code[i] = statement

\* the value of PPC_CHECK_GLOBAL_LOCK once the mutex is acquired
PPC_CHECK_GLOBAL_LOCK(count) == IF count # 0 THEN 0 ELSE 32768

Ready == [pc |-> "ready", inside |-> 0, msr |-> 0, last |-> "", r |-> 0,
          held_then |-> FALSE, owner_then |-> FALSE]

LockInit ==
    /\ ppc_global_lock_count_ = 0
    /\ mutex = [owner |-> 0, depth |-> 0]
    /\ guest = [t \in LockThreads |-> Ready]
    /\ config \in [skipMsr : BOOLEAN, ndebug : BOOLEAN]
    /\ asserts = [failed |-> FALSE, aborted |-> FALSE]

LockIdle ==
    /\ ppc_global_lock_count_ = 0
    /\ mutex = [owner |-> 0, depth |-> 0]
    /\ guest = <<>>
    /\ config = [skipMsr |-> FALSE, ndebug |-> FALSE]
    /\ asserts = [failed |-> FALSE, aborted |-> FALSE]

\* some thread has entered the critical section and not left it
Held == \E u \in LockThreads : guest[u].inside > 0

CanLock(t) == mutex.owner \in {0, t}
Locked(t) == [owner |-> t, depth |-> IF mutex.owner = t THEN mutex.depth + 1 ELSE 1]
Unlocked == IF mutex.depth <= 1 THEN [owner |-> 0, depth |-> 0]
            ELSE [mutex EXCEPT !.depth = @ - 1]

\* mfmsr rD: the lambda of PPC_CHECK_GLOBAL_LOCK acquires the mutex, loads
\* the counter and lets the mutex go
Mfmsr(t) ==
    /\ guest[t].pc = "ready" /\ ~asserts.aborted
    /\ IF Emits(build_mfmsr(config), "PPC_CHECK_GLOBAL_LOCK")
       THEN /\ CanLock(t)
            /\ guest' = [guest EXCEPT ![t].last = "mfmsr",
                            ![t].r = PPC_CHECK_GLOBAL_LOCK(ppc_global_lock_count_),
                            ![t].held_then = Held]
       ELSE guest' = [guest EXCEPT ![t].last = "mfmsr", ![t].held_then = Held]
    /\ UNCHANGED <<ppc_global_lock_count_, mutex, config, asserts>>
    /\ UNCHANGED notLock

\* mtmsrd r13: ctx.msr, then the first half of PPC_ENTER_GLOBAL_LOCK,
\* mutex().lock()
MtmsrdEnter(t) ==
    /\ guest[t].pc = "ready" /\ ~asserts.aborted
    /\ guest[t].inside < MaxNesting
    /\ \E value \in {0, 32768} :
          IF Emits(build_mtmsrd(config, 13), "PPC_ENTER_GLOBAL_LOCK")
          THEN /\ CanLock(t)
               /\ mutex' = Locked(t)
               /\ guest' = [guest EXCEPT ![t].msr = value, ![t].pc = "fetch_add"]
          ELSE /\ mutex' = mutex
               /\ guest' = [guest EXCEPT ![t].last = "enter",
                               ![t].owner_then = mutex.owner = t]
    /\ UNCHANGED <<ppc_global_lock_count_, config, asserts>>
    /\ UNCHANGED notLock

\* the second half of PPC_ENTER_GLOBAL_LOCK: fetch_add(1)
EnterFetchAdd(t) ==
    /\ guest[t].pc = "fetch_add" /\ ~asserts.aborted
    /\ ppc_global_lock_count_' = ppc_global_lock_count_ + 1
    /\ guest' = [guest EXCEPT ![t].pc = "ready", ![t].last = "enter",
                    ![t].inside = @ + 1, ![t].owner_then = mutex.owner = t]
    /\ UNCHANGED <<mutex, config, asserts>>
    /\ UNCHANGED notLock

\* mtmsrd from another register: ctx.msr, then the first half of
\* PPC_LEAVE_GLOBAL_LOCK, fetch_sub(1) and the assert on the old count
MtmsrdLeave(t) ==
    /\ guest[t].pc = "ready" /\ ~asserts.aborted
    /\ ppc_global_lock_count_ > -MaxNesting
    /\ \E src_reg \in {3, 11}, value \in {0, 32768} :
          IF Emits(build_mtmsrd(config, src_reg), "PPC_LEAVE_GLOBAL_LOCK")
          THEN /\ ppc_global_lock_count_' = ppc_global_lock_count_ - 1
               /\ asserts' = IF ppc_global_lock_count_ >= 1 THEN asserts
                             ELSE [failed |-> TRUE, aborted |-> ~config.ndebug]
               /\ guest' = [guest EXCEPT ![t].msr = value, ![t].pc = "unlock"]
          ELSE /\ UNCHANGED <<ppc_global_lock_count_, asserts>>
               /\ guest' = [guest EXCEPT ![t].last = "leave"]
    /\ UNCHANGED <<mutex, config>>
    /\ UNCHANGED notLock

\* the second half of PPC_LEAVE_GLOBAL_LOCK: mutex().unlock().  The unlock
\* of a mutex the thread does not own is undefined: it has no effect, or it
\* takes one level off the owner's lock.
LeaveUnlock(t) ==
    /\ guest[t].pc = "unlock" /\ ~asserts.aborted
    /\ \E taken \in BOOLEAN :
          mutex' = IF mutex.owner = t \/ (taken /\ mutex.owner # 0) THEN Unlocked
                   ELSE mutex
    /\ guest' = [guest EXCEPT ![t].pc = "ready", ![t].last = "leave",
                    ![t].inside = IF @ > 0 THEN @ - 1 ELSE 0]
    /\ UNCHANGED <<ppc_global_lock_count_, config, asserts>>
    /\ UNCHANGED notLock

LockNext ==
    \/ \E t \in LockThreads : Mfmsr(t)
    \/ \E t \in LockThreads : MtmsrdEnter(t)
    \/ \E t \in LockThreads : EnterFetchAdd(t)
    \/ \E t \in LockThreads : MtmsrdLeave(t)
    \/ \E t \in LockThreads : LeaveUnlock(t)

\* C9 as stated: with the MSR code emitted and no assert failed, a
\* completed mtmsrd r13 leaves its thread owning the critical section, and
\* mfmsr yields 0 when a thread is inside the critical section at the
\* moment of the read and 0x8000 when none is.
C9_AsStated ==
    (~config.skipMsr /\ ~asserts.failed) =>
        \A t \in LockThreads :
            /\ guest[t].last = "enter" => guest[t].owner_then
            /\ guest[t].last = "mfmsr" =>
                  guest[t].r = IF guest[t].held_then THEN 0 ELSE 32768

\* the threads that have completed an enter and not yet the leave for it
Inside == {t \in LockThreads : guest[t].inside > 0}
\* the threads in the middle of an enter or of a leave
Midway == {t \in LockThreads : guest[t].pc # "ready"}
\* the nesting depth of the holder, 0 when no thread holds the lock
HolderDepth == IF Inside = {} THEN 0 ELSE guest[CHOOSE t \in Inside : TRUE].inside

\* C29: in every interleaving of threads that execute PPC_ENTER_GLOBAL_LOCK
\* and PPC_LEAVE_GLOBAL_LOCK, at most one thread is between an enter and
\* its matching leave at any time, and the global lock count is never
\* negative and equals the nesting depth of the thread that holds the lock
\* (0 when no thread holds it).  The process is taken while it runs, and
\* the count is compared with the depth when no thread is in the middle of
\* one of the two macros.
C29_AsStated ==
    (~config.skipMsr /\ ~asserts.aborted) =>
        /\ Cardinality(Inside) <= 1
        /\ ppc_global_lock_count_ >= 0
        /\ Midway = {} => ppc_global_lock_count_ = HolderDepth
\* the state of counter, mutex and threads when every leave was matched:
\* the owner of the mutex is the one thread inside or midway, the mutex is
\* as deep as the enters begun, the counter counts the enters completed less
\* the leaves begun
Matched ==
    /\ \A t \in LockThreads : (t \in Inside \/ t \in Midway) <=> mutex.owner = t
    /\ ppc_global_lock_count_ >= 0
    /\ \A t \in LockThreads :
         mutex.owner = t =>
            /\ mutex.depth = guest[t].inside + (IF guest[t].pc = "fetch_add" THEN 1 ELSE 0)
            /\ ppc_global_lock_count_ =
                  guest[t].inside - (IF guest[t].pc = "unlock" THEN 1 ELSE 0)
    /\ mutex.owner = 0 => ppc_global_lock_count_ = 0 /\ mutex.depth = 0
\* a step that begins a leave in a thread that is not inside
StrayLeave ==
    \E t \in LockThreads :
        guest[t].pc = "ready" /\ guest'[t].pc = "unlock" /\ guest[t].inside = 0
\* every step but the stray leave keeps the threads matched, and matched
\* threads are as the claim has them
C29_MatchedKept == [][(~config.skipMsr /\ Matched /\ ~StrayLeave) => Matched']_vars
C29_MatchedIsStated == Matched => C29_AsStated
\* a thread nested twice in the critical section, every leave so far matched
C29_WitnessNested ==
    /\ Matched /\ Midway = {} /\ ppc_global_lock_count_ = MaxNesting
    /\ \E t \in Inside : guest[t].inside = MaxNesting
\* the counter below zero in a running process
C29_WitnessNegative == ~config.skipMsr /\ ~asserts.aborted /\ ppc_global_lock_count_ < 0
\* two threads inside the critical section with no assert failed
C29_WitnessTwoInside == ~asserts.failed /\ Cardinality(Inside) = 2

---------------------------------------------------------------------------
(* The trap service call.  A 64-bit register is kept as its upper and its  *)
(* lower 32 bits, so that the views .u32 and .u16 of the PPCRegister union *)
(* are computed and not assumed.                                           *)

\* bytes of guest memory that are modelled, from guest address 0
MemBytes == 3

Bytes == {0, 65}
TrapTypes == {0, 1, 20, 22, 25, 26, 31, 65535}

u32(reg) == reg.lo
u16(reg) == reg.lo % 65536

\* 0u on Linux; on Windows it differs only from 0xE0000000 upwards
PPC_PHYS_HOST_OFFSET(x) == 0

\* the string_view of len bytes at base + x
PPC_LOAD_STRING(m, x, len) == [i \in 1 .. len |-> m[x + PPC_PHYS_HOST_OFFSET(x) + i - 1]]

LogEntry(level, format, str, number) ==
    [level |-> level, format |-> format, str |-> str, number |-> number]

\* a ppc_trap whose selector 26 has no case of its own
ppc_trap_No26(c, m, trap_type) ==
    [ctx |-> c, base |-> m,
     log |-> CASE trap_type = 20 ->
                    <<LogEntry("DEBUG", "(service trap) {}",
                               PPC_LOAD_STRING(m, u32(c.r3), u16(c.r4)), 0)>>
               [] trap_type \in {0, 22} ->
                    <<LogEntry("WARN", "tw/td trap hit (type {})", <<>>, trap_type)>>
               [] trap_type = 25 -> <<>>
               [] OTHER ->
                    <<LogEntry("WARN", "Unknown trap type {}", <<>>, trap_type)>>]

ppc_trap(c, m, trap_type) ==
    [ctx |-> c, base |-> m,
     log |-> CASE trap_type \in {20, 26} ->
                    <<LogEntry("DEBUG", "(service trap) {}",
                               PPC_LOAD_STRING(m, u32(c.r3), u16(c.r4)), 0)>>
               [] trap_type \in {0, 22} ->
                    <<LogEntry("WARN", "tw/td trap hit (type {})", <<>>, trap_type)>>
               [] trap_type = 25 -> <<>>
               [] OTHER ->
                    <<LogEntry("WARN", "Unknown trap type {}", <<>>, trap_type)>>]

NoTrap == [op |-> "none"]

Register(hi, lo) == [hi |-> hi, lo |-> lo]

TrapInit ==
    /\ ctx = [r3 |-> Register(0, 0), r4 |-> Register(0, 0)]
    /\ membase = [a \in 0 .. MemBytes - 1 |-> 0]
    /\ tlast = NoTrap

TrapIdle == ctx = <<>> /\ membase = <<>> /\ tlast = NoTrap

\* the guest code before the trap loads r3 and r4
SetRegisters ==
    /\ tlast = NoTrap
    /\ \E ptr \in 0 .. MemBytes - 1, hi \in {0, 1},
          lo \in (0 .. MemBytes) \cup {65536 + k : k \in 0 .. MemBytes} :
          ctx' = [r3 |-> Register(0, ptr), r4 |-> Register(hi, lo)]
    /\ UNCHANGED <<membase, tlast>>
    /\ UNCHANGED notTrap

\* the guest code before the trap stores a byte of the string
StoreByte ==
    /\ tlast = NoTrap
    /\ \E a \in 0 .. MemBytes - 1, b \in Bytes : membase' = [membase EXCEPT ![a] = b]
    /\ UNCHANGED <<ctx, tlast>>
    /\ UNCHANGED notTrap

\* the emitted ppc_trap(ctx, base, trap_type); the string lies inside the
\* modelled bytes
Trap ==
    /\ tlast = NoTrap
    /\ \E trap_type \in TrapTypes :
          /\ trap_type \in {20, 26} => u32(ctx.r3) + u16(ctx.r4) <= MemBytes
          /\ LET r == ppc_trap(ctx, membase, trap_type)
             IN  /\ ctx' = r.ctx
                 /\ membase' = r.base
                 /\ tlast' = [op |-> "ppc_trap", trap_type |-> trap_type,
                              log |-> r.log, pre |-> [ctx |-> ctx, base |-> membase]]
    /\ UNCHANGED notTrap

TrapReturn ==
    /\ tlast # NoTrap
    /\ tlast' = NoTrap
    /\ UNCHANGED <<ctx, membase>>
    /\ UNCHANGED notTrap

TrapNext == SetRegisters \/ StoreByte \/ Trap \/ TrapReturn

Trapped == tlast.op = "ppc_trap"
Unchanged == ctx = tlast.pre.ctx /\ membase = tlast.pre.base

\* what the selectors other than 20 and 26 log
OtherSelectors ==
    CASE tlast.trap_type \in {0, 22} ->
            /\ Len(tlast.log) = 1
            /\ tlast.log[1].level = "WARN"
            /\ tlast.log[1].format = "tw/td trap hit (type {})"
            /\ tlast.log[1].number = tlast.trap_type
      [] tlast.trap_type = 25 -> tlast.log = <<>>
      [] OTHER ->
            /\ Len(tlast.log) = 1
            /\ tlast.log[1].level = "WARN"
            /\ tlast.log[1].format = "Unknown trap type {}"
            /\ tlast.log[1].number = tlast.trap_type

\* the one message of selectors 20 and 26 is the len bytes at address ptr
PrintsString(ptr, len) ==
    /\ Len(tlast.log) = 1
    /\ tlast.log[1].level = "DEBUG"
    /\ tlast.log[1].format = "(service trap) {}"
    /\ Len(tlast.log[1].str) = len
    /\ \A i \in 1 .. Len(tlast.log[1].str) :
          tlast.log[1].str[i] = tlast.pre.base[ptr + i - 1]

\* C10 as stated: selectors 20 and 26 log the string of r4 bytes at guest
\* address r3, 0 and 22 log a debug break, 25 does nothing, any other
\* selector logs a warning; the context and guest memory are unchanged.
C10_AsStated ==
    Trapped =>
        /\ Unchanged
        /\ IF tlast.trap_type \in {20, 26}
           THEN ctx.r4.hi = 0 /\ PrintsString(ctx.r3.lo, ctx.r4.lo)
           ELSE OtherSelectors

\* C10 amended: as C10, with the length of the string being the low 16
\* bits of r4 and its address the low 32 bits of r3.
C10_TrapService ==
    Trapped =>
        /\ Unchanged
        /\ IF tlast.trap_type \in {20, 26}
           THEN PrintsString(ctx.r3.lo, ctx.r4.lo % 65536)
           ELSE OtherSelectors

\* selector 26 has printed a string of two bytes that are not all zero,
\* from an address above 0
C10_Witness ==
    /\ Trapped /\ tlast.trap_type = 26
    /\ ctx.r3.lo > 0
    /\ Len(tlast.log) = 1 /\ Len(tlast.log[1].str) = 2
    /\ tlast.log[1].str[1] # tlast.log[1].str[2]

\* selector 20 has printed with an r4 above 0xFFFF
C10_WitnessWide ==
    /\ Trapped /\ tlast.trap_type = 20
    /\ ctx.r4.lo > 65536
    /\ Len(tlast.log) = 1 /\ Len(tlast.log[1].str) > 0

---------------------------------------------------------------------------
(* The builders of the trap instructions (src/codegen/builders/system.cpp).*)
(* An instruction is its 32-bit word; the builders take the fields TO, rA, *)
(* rB and the immediate out of the word.  What a builder emits is either   *)
(* the line that calls ppc_trap, or its call of emitTrap, which emits the  *)
(* conditional trap for the TO mask and the two operands.                  *)

\* primary opcodes, and the extended opcodes of tw and td
PrimaryOpcode(mnemonic) ==
    CASE mnemonic = "tdi" -> 2 [] mnemonic = "twi" -> 3 [] OTHER -> 31
ExtendedOpcode(mnemonic) ==
    CASE mnemonic = "tw" -> 4 [] mnemonic = "td" -> 68 [] OTHER -> 0

TrapMnemonics == {"tw", "td", "twi", "tdi"}
ToFields == {0, 4, 24, 31}
RaFields == {0, 3, 31}
RbFields == {0, 4}
Immediates == {0, 20, 25, 26, 32767, 32768, 65535}

\* the word of a D-form (twi, tdi) or X-form (tw, td) trap instruction
EncodeTrap(mnemonic, to, ra, low) ==
    PrimaryOpcode(mnemonic) * 67108864 + to * 2097152 + ra * 65536 + low

\* static_cast<int16_t>(instruction & 0xFFFF)
SignExtend16(x) == IF x % 65536 >= 32768 THEN (x % 65536) - 65536 ELSE x % 65536
\* static_cast<uint16_t>(simm)
ToUint16(x) == x % 65536

Reg(n, view) == [kind |-> "register", r |-> n, view |-> view]
Imm(value, cast, suffix) ==
    [kind |-> "immediate", value |-> value, cast |-> cast, suffix |-> suffix]

emitTrap(to, a_signed, a_unsigned, b_signed, b_unsigned) ==
    <<[call |-> "emitTrap", to |-> to, a_signed |-> a_signed,
       a_unsigned |-> a_unsigned, b_signed |-> b_signed,
       b_unsigned |-> b_unsigned]>>

ppc_trap_line(trap_type) == <<[call |-> "ppc_trap", trap_type |-> trap_type]>>

build_tdi(instruction) ==
    LET to == (instruction \div 2097152) % 32
        ra == (instruction \div 65536) % 32
        simm == SignExtend16(instruction)
    IN  emitTrap(to, Reg(ra, "s64"), Reg(ra, "u64"),
                 Imm(simm, "int64_t", "ll"), Imm(simm, "uint64_t", "ull"))

\* a build_twi without the test for the unconditional encoding
build_twi_NoService(instruction) ==
    LET to == (instruction \div 2097152) % 32
        ra == (instruction \div 65536) % 32
        simm == SignExtend16(instruction)
    IN  emitTrap(to, Reg(ra, "s32"), Reg(ra, "u32"),
                 Imm(simm, "int32_t", ""), Imm(simm, "uint32_t", "u"))

build_twi(instruction) ==
    LET to == (instruction \div 2097152) % 32
        ra == (instruction \div 65536) % 32
        simm == SignExtend16(instruction)
    IN  IF to = 31 /\ ra = 0
        THEN ppc_trap_line(ToUint16(simm))
        ELSE emitTrap(to, Reg(ra, "s32"), Reg(ra, "u32"),
                      Imm(simm, "int32_t", ""), Imm(simm, "uint32_t", "u"))

build_td(instruction) ==
    LET to == (instruction \div 2097152) % 32
        ra == (instruction \div 65536) % 32
        rb == (instruction \div 2048) % 32
    IN  emitTrap(to, Reg(ra, "s64"), Reg(ra, "u64"), Reg(rb, "s64"), Reg(rb, "u64"))

build_tw(instruction) ==
    LET to == (instruction \div 2097152) % 32
        ra == (instruction \div 65536) % 32
        rb == (instruction \div 2048) % 32
    IN  emitTrap(to, Reg(ra, "s32"), Reg(ra, "u32"), Reg(rb, "s32"), Reg(rb, "u32"))

NoInsn == [mnemonic |-> "none"]

EmitInit == insn = NoInsn /\ printed = <<>>
EmitIdle == EmitInit

\* the recompiler comes to a trap instruction
Decode ==
    /\ insn = NoInsn
    /\ \E mnemonic \in TrapMnemonics, to \in ToFields, ra \in RaFields :
          \E low \in IF mnemonic \in {"twi", "tdi"} THEN Immediates
                     ELSE {rb * 2048 + ExtendedOpcode(mnemonic) * 2 : rb \in RbFields} :
             insn' = [mnemonic |-> mnemonic, to |-> to, ra |-> ra, low |-> low,
                      instruction |-> EncodeTrap(mnemonic, to, ra, low),
                      built |-> FALSE]
    /\ printed' = <<>>
    /\ UNCHANGED notEmit

Build(mnemonic, lines) ==
    /\ insn.mnemonic = mnemonic /\ ~insn.built
    /\ printed' = lines
    /\ insn' = [insn EXCEPT !.built = TRUE]
    /\ UNCHANGED notEmit

BuildTdi == Build("tdi", build_tdi(insn.instruction))
BuildTwi == Build("twi", build_twi(insn.instruction))
BuildTd == Build("td", build_td(insn.instruction))
BuildTw == Build("tw", build_tw(insn.instruction))

\* the recompiler goes on to the next instruction
NextInsn ==
    /\ insn # NoInsn /\ insn.built
    /\ insn' = NoInsn
    /\ printed' = <<>>
    /\ UNCHANGED notEmit

EmitNext == Decode \/ BuildTdi \/ BuildTwi \/ BuildTd \/ BuildTw \/ NextInsn

Built == insn # NoInsn /\ insn.built
Unconditional == insn.to = 31 /\ insn.ra = 0
CallsService == Len(printed) = 1 /\ printed[1].call = "ppc_trap"
                   /\ printed[1].trap_type = insn.low
ConditionalTrap == Len(printed) = 1 /\ printed[1].call = "emitTrap"
                      /\ printed[1].to = insn.to
                      /\ printed[1].a_signed.r = insn.ra

\* C11 as stated: every tw, td, twi, tdi with TO = 31 and rA = 0 is emitted
\* as the call of the trap service with the low 16 bits of the word as
\* selector, every other encoding as a conditional trap.
C11_AsStated ==
    Built => IF Unconditional THEN CallsService ELSE ConditionalTrap

\* C11 amended: twi with TO = 31 and rA = 0 is emitted as the call of the
\* trap service with the 16-bit immediate as selector; every other twi, and
\* every tdi, tw and td, is handed to emitTrap with its TO mask.
C11_TwiService ==
    Built => IF insn.mnemonic = "twi" /\ Unconditional
             THEN CallsService ELSE ConditionalTrap

\* twi 31, r0 with an immediate whose top bit is set has been emitted
C11_Witness ==
    Built /\ insn.mnemonic = "twi" /\ Unconditional /\ insn.low >= 32768
          /\ CallsService

\* tdi 31, r0, 20 has been built
C11_WitnessTdi ==
    Built /\ insn.mnemonic = "tdi" /\ Unconditional /\ insn.low = 20

---------------------------------------------------------------------------
(* The MMIO load and store macros (include/rex/kernel/format.h).  A guest  *)
(* address is an unsigned 32-bit value below 0x80000000, or the negative   *)
(* integer with its bit pattern; a 64-bit value is its upper and lower 32  *)
(* bits.  MMIOHandler is taken as a set of mapped device registers:        *)
(* CheckLoad of a mapped address gives the register, CheckLoad of any      *)
(* other address returns false and leaves its out parameter unwritten.     *)

\* first address of the MMIO window of PPC_IS_MMIO_ADDR
MmioLow == 2130706432

\* addr + n in uint32_t, for 0 <= n
Add32(a, n) ==
    IF a > 2147483647 - n THEN (((a - 2147483647) - 1) + n) - 2147483647 - 1
    ELSE a + n

PPC_IS_MMIO_ADDR(addr) == addr >= MmioLow

\* addresses the accesses are made at: the two ends of the window, a GPU
\* register, and the addresses just below and just above the window
MmioAddrs == {MmioLow, MmioLow + 13107200, 2147483640, 2147483644}
PlainAddrs == {MmioLow - 4, -2147483647 - 1}
MappedRegisters == {MmioLow + 13107200, MmioLow + 13107204, 2147483640}
ArenaBytes == {Add32(a, i) : a \in MmioAddrs \cup PlainAddrs, i \in 0 .. 7}
Widths == {8, 16, 32, 64}

Value64(hi, lo) == [hi |-> hi, lo |-> lo]
\* values a store of each width is made with
StoreValues(width) ==
    CASE width = 8 -> {Value64(0, 43)}
      [] width = 16 -> {Value64(0, 11213)}
      [] width = 32 -> {Value64(0, 16909060)}
      [] OTHER -> {Value64(0, 0), Value64(16909060, 84281096)}
\* what an unwritten uint32_t may hold
Indeterminate == {0, 57005}

\* big-endian bytes of the low n bytes of a word
BytesOf(x, n) == [i \in 1 .. n |-> (x \div (256 ^ (n - i))) % 256]
WordOf(bytes) ==
    LET RECURSIVE sum(_)
        sum(i) == IF i = 0 THEN 0 ELSE sum(i - 1) * 256 + bytes[i]
    IN  sum(Len(bytes))

\* the raw store of bswap(val) at base + addr
RawStore(s, addr, bytes) ==
    [s EXCEPT !.arena = [a \in DOMAIN @ |->
        IF \E i \in 1 .. Len(bytes) : a = Add32(addr, i - 1)
        THEN bytes[CHOOSE i \in 1 .. Len(bytes) : a = Add32(addr, i - 1)]
        ELSE @[a]]]
RawLoad(s, addr, n) == [i \in 1 .. n |-> s.arena[Add32(addr, i - 1)]]

CheckStore(s, addr, value) ==
    [s EXCEPT !.calls = Append(@, [op |-> "CheckStore", addr |-> addr, value |-> value])]

\* the state after the call, and what the out parameter holds after it
CheckLoad(s, addr, unwritten) ==
    LET v == IF addr \in DOMAIN s.regs THEN s.regs[addr] ELSE unwritten
    IN  [s |-> [s EXCEPT !.calls =
                   Append(@, [op |-> "CheckLoad", addr |-> addr, value |-> v])],
         out |-> v]

PPC_MM_STORE_U8(s, addr, val) ==
    IF PPC_IS_MMIO_ADDR(addr) THEN CheckStore(s, addr, val.lo)
    ELSE RawStore(s, addr, BytesOf(val.lo, 1))

PPC_MM_STORE_U16(s, addr, val) ==
    IF PPC_IS_MMIO_ADDR(addr) THEN CheckStore(s, addr, val.lo)
    ELSE RawStore(s, addr, BytesOf(val.lo, 2))

PPC_MM_STORE_U32(s, addr, val) ==
    IF PPC_IS_MMIO_ADDR(addr) THEN CheckStore(s, addr, val.lo)
    ELSE RawStore(s, addr, BytesOf(val.lo, 4))

\* a 64-bit store that hands the handler the low word only
PPC_MM_STORE_U64_LowOnly(s, addr, val) ==
    IF PPC_IS_MMIO_ADDR(addr) THEN CheckStore(s, addr, val.lo)
    ELSE RawStore(s, addr, BytesOf(val.hi, 4) \o BytesOf(val.lo, 4))

PPC_MM_STORE_U64(s, addr, val) ==
    IF PPC_IS_MMIO_ADDR(addr)
    THEN CheckStore(CheckStore(s, addr, val.hi), Add32(addr, 4), val.lo)
    ELSE RawStore(s, addr, BytesOf(val.hi, 4) \o BytesOf(val.lo, 4))

\* the loads give the state after them and the value of the expression
PPC_MM_LOAD_U8(s, addr, unwritten) ==
    IF PPC_IS_MMIO_ADDR(addr)
    THEN LET r == CheckLoad(s, addr, unwritten[1])
         IN  [s |-> r.s, value |-> Value64(0, r.out % 256)]
    ELSE [s |-> s, value |-> Value64(0, WordOf(RawLoad(s, addr, 1)))]

PPC_MM_LOAD_U16(s, addr, unwritten) ==
    IF PPC_IS_MMIO_ADDR(addr)
    THEN LET r == CheckLoad(s, addr, unwritten[1])
         IN  [s |-> r.s, value |-> Value64(0, r.out % 65536)]
    ELSE [s |-> s, value |-> Value64(0, WordOf(RawLoad(s, addr, 2)))]

PPC_MM_LOAD_U32(s, addr, unwritten) ==
    IF PPC_IS_MMIO_ADDR(addr)
    THEN LET r == CheckLoad(s, addr, unwritten[1])
         IN  [s |-> r.s, value |-> Value64(0, r.out)]
    ELSE [s |-> s, value |-> Value64(0, WordOf(RawLoad(s, addr, 4)))]

PPC_MM_LOAD_U64(s, addr, unwritten) ==
    IF PPC_IS_MMIO_ADDR(addr)
    THEN LET hi == CheckLoad(s, addr, unwritten[1])
             lo == CheckLoad(hi.s, Add32(addr, 4), unwritten[2])
         IN  [s |-> lo.s, value |-> Value64(hi.out, lo.out)]
    ELSE [s |-> s,
          value |-> Value64(WordOf(RawLoad(s, addr, 4)),
                            WordOf(RawLoad(s, Add32(addr, 4), 4)))]

NoAccess == [op |-> "none"]

MmioInit ==
    /\ arena = [a \in ArenaBytes |-> 0]
    /\ regs = [a \in MappedRegisters |-> 0]
    /\ mlast = NoAccess
MmioIdle == arena = <<>> /\ regs = <<>> /\ mlast = NoAccess

MmioState == [arena |-> arena, regs |-> regs, calls |-> <<>>]

\* an emitted store
MmStore ==
    /\ mlast = NoAccess
    /\ \E width \in Widths, addr \in MmioAddrs \cup PlainAddrs :
       \E val \in StoreValues(width) :
          LET r == CASE width = 8 -> PPC_MM_STORE_U8(MmioState, addr, val)
                     [] width = 16 -> PPC_MM_STORE_U16(MmioState, addr, val)
                     [] width = 32 -> PPC_MM_STORE_U32(MmioState, addr, val)
                     [] OTHER -> PPC_MM_STORE_U64(MmioState, addr, val)
          IN  /\ arena' = r.arena
              /\ regs' = r.regs
              /\ mlast' = [op |-> "store", width |-> width, addr |-> addr,
                           val |-> val, calls |-> r.calls,
                           value |-> Value64(0, 0), arena |-> arena]
    /\ UNCHANGED notMmio

\* an emitted load
MmLoad ==
    /\ mlast = NoAccess
    /\ \E width \in Widths, addr \in MmioAddrs \cup PlainAddrs,
          unwritten \in Indeterminate \X Indeterminate :
          LET r == CASE width = 8 -> PPC_MM_LOAD_U8(MmioState, addr, unwritten)
                     [] width = 16 -> PPC_MM_LOAD_U16(MmioState, addr, unwritten)
                     [] width = 32 -> PPC_MM_LOAD_U32(MmioState, addr, unwritten)
                     [] OTHER -> PPC_MM_LOAD_U64(MmioState, addr, unwritten)
          IN  /\ arena' = r.s.arena
              /\ regs' = r.s.regs
              /\ mlast' = [op |-> "load", width |-> width, addr |-> addr,
                           val |-> Value64(0, 0), calls |-> r.s.calls,
                           value |-> r.value, arena |-> arena]
    /\ UNCHANGED notMmio

\* a device changes one of its registers
DeviceUpdate ==
    /\ mlast = NoAccess
    /\ \E a \in MappedRegisters, v \in {0, 16909060} :
          regs' = [regs EXCEPT ![a] = v]
    /\ UNCHANGED <<arena, mlast>>
    /\ UNCHANGED notMmio

MmReturn ==
    /\ mlast # NoAccess
    /\ mlast' = NoAccess
    /\ UNCHANGED <<arena, regs>>
    /\ UNCHANGED notMmio

MmioNext == MmStore \/ MmLoad \/ DeviceUpdate \/ MmReturn

Accessed == mlast.op # "none"
InMmioWindow(a) == a >= 2130706432 /\ a <= 2147483647
HandlerOp == IF mlast.op = "store" THEN "CheckStore" ELSE "CheckLoad"
HandlerCalls(n) ==
    /\ Len(mlast.calls) = n
    /\ \A i \in 1 .. n : mlast.calls[i].op = HandlerOp

\* C12 as stated: an access of any width to an address of the MMIO window
\* calls the handler's store (load) exactly once and a store writes no
\* arena byte; an access outside the window does not call the handler.
C12_AsStated ==
    Accessed =>
        IF InMmioWindow(mlast.addr)
        THEN HandlerCalls(1) /\ arena = mlast.arena
        ELSE mlast.calls = <<>>

\* C12 amended: as C12, with exactly one handler call for the 8-, 16- and
\* 32-bit accesses and exactly two for the 64-bit accesses.
C12_Dispatch ==
    Accessed =>
        IF InMmioWindow(mlast.addr)
        THEN /\ HandlerCalls(IF mlast.width = 64 THEN 2 ELSE 1)
             /\ arena = mlast.arena
        ELSE mlast.calls = <<>>

\* a 32-bit store to a GPU register has been dispatched, after plain
\* stores have written arena bytes
C12_Witness ==
    /\ Accessed /\ mlast.op = "store" /\ mlast.width = 32
    /\ mlast.addr \in MappedRegisters /\ Len(mlast.calls) = 1
    /\ \E a \in ArenaBytes : arena[a] # 0

\* a 64-bit load outside the window has been made
C12_WitnessPlain ==
    Accessed /\ mlast.op = "load" /\ mlast.width = 64
        /\ ~InMmioWindow(mlast.addr) /\ mlast.value.lo # 0

\* C13 as stated: a 64-bit access to an MMIO address is two 32-bit handler
\* transactions, the high word at addr and then the low word at addr + 4,
\* both inside the MMIO window; a load returns (first << 32) | second.
C13_AsStated ==
    (Accessed /\ mlast.width = 64 /\ InMmioWindow(mlast.addr)) =>
        /\ HandlerCalls(2)
        /\ mlast.calls[1].addr = mlast.addr
        /\ mlast.calls[2].addr = Add32(mlast.addr, 4)
        /\ InMmioWindow(mlast.calls[1].addr) /\ InMmioWindow(mlast.calls[2].addr)
        /\ mlast.op = "store" =>
              mlast.calls[1].value = mlast.val.hi /\ mlast.calls[2].value = mlast.val.lo
        /\ mlast.op = "load" =>
              mlast.value = Value64(mlast.calls[1].value, mlast.calls[2].value)

\* C13 without the window of the second transaction: two transactions,
\* high word at addr, low word at addr + 4 modulo 2^32
C13_HighWordFirst ==
    (Accessed /\ mlast.width = 64 /\ InMmioWindow(mlast.addr)) =>
        /\ HandlerCalls(2)
        /\ mlast.calls[1].addr = mlast.addr
        /\ mlast.calls[2].addr = Add32(mlast.addr, 4)
        /\ mlast.op = "store" =>
              mlast.calls[1].value = mlast.val.hi /\ mlast.calls[2].value = mlast.val.lo
        /\ mlast.op = "load" =>
              mlast.value = Value64(mlast.calls[1].value, mlast.calls[2].value)

---------------------------------------------------------------------------
(* ppc_setjmp and ppc_longjmp (include/rex/kernel/format.h).  The map of   *)
(* get_jmp_buf_map is thread_local: one map per thread.  setjmp is invoked *)
(* in the body of the inline function ppc_setjmp: where the compiler does  *)
(* not inline it, the invocation that filled the jmp_buf has ended when    *)
(* ppc_setjmp returns, and a longjmp to that jmp_buf is undefined.         *)

JmpThreads == {1, 2}
\* guest jmp_buf addresses used as keys, and the call sites of ppc_setjmp
GuestBufs == {4096, 8192}
Sites == {"siteA", "siteB"}
JmpValues == {0, 1, 7}

get_jmp_buf_map(maps, t) == maps[t]

\* setjmp(map[guest_buf_addr]) on the direct call: the jmp_buf holds the
\* site, and whether the invocation of setjmp outlives ppc_setjmp
ppc_setjmp(maps, t, guest_buf_addr, site, outlives) ==
    [maps EXCEPT ![t] = [k \in DOMAIN @ \cup {guest_buf_addr} |->
        IF k = guest_buf_addr THEN [site |-> site, frame_live |-> outlives]
        ELSE @[k]]]

\* the outcomes of longjmp(env, val)
longjmp(env, val) ==
    LET there == [to |-> env.site, returns |-> IF val = 0 THEN 1 ELSE val]
    IN  IF env.frame_live THEN {there} ELSE {there, [to |-> "undefined", returns |-> 0]}

\* a ppc_longjmp that looks the key up in the maps of all threads
ppc_longjmp_AnyThread(maps, t, guest_buf_addr, val) ==
    IF \E u \in JmpThreads : guest_buf_addr \in DOMAIN maps[u]
    THEN LET u == CHOOSE u \in JmpThreads : guest_buf_addr \in DOMAIN maps[u]
         IN  longjmp(maps[u][guest_buf_addr], val)
    ELSE {[to |-> "abort", returns |-> 0]}

\* the outcomes of ppc_longjmp
ppc_longjmp(maps, t, guest_buf_addr, val) ==
    LET map == get_jmp_buf_map(maps, t)
    IN  IF guest_buf_addr \in DOMAIN map
        THEN longjmp(map[guest_buf_addr], val)
        ELSE {[to |-> "abort", returns |-> 0]}

NoJump == [op |-> "none"]

JmpInit ==
    /\ jmp_buf_maps = [t \in JmpThreads |-> <<>>]
    /\ inlined \in BOOLEAN
    /\ jlast = NoJump
JmpIdle == jmp_buf_maps = <<>> /\ inlined = FALSE /\ jlast = NoJump

Setjmp ==
    /\ jlast = NoJump
    /\ \E t \in JmpThreads, k \in GuestBufs, site \in Sites :
          /\ jmp_buf_maps' = ppc_setjmp(jmp_buf_maps, t, k, site, inlined)
          /\ jlast' = [op |-> "ppc_setjmp", thread |-> t, key |-> k,
                       to |-> site, returns |-> 0, maps |-> jmp_buf_maps]
    /\ UNCHANGED inlined
    /\ UNCHANGED notJmp

Longjmp ==
    /\ jlast = NoJump
    /\ \E t \in JmpThreads, k \in GuestBufs, val \in JmpValues :
          \E outcome \in ppc_longjmp(jmp_buf_maps, t, k, val) :
             jlast' = [op |-> "ppc_longjmp", thread |-> t, key |-> k,
                       to |-> outcome.to, returns |-> outcome.returns,
                       maps |-> jmp_buf_maps]
    /\ UNCHANGED <<jmp_buf_maps, inlined>>
    /\ UNCHANGED notJmp

\* the thread runs on from where it is; an aborted process does not
JmpResume ==
    /\ jlast # NoJump /\ jlast.to # "abort"
    /\ jlast' = NoJump
    /\ UNCHANGED <<jmp_buf_maps, inlined>>
    /\ UNCHANGED notJmp

JmpNext == Setjmp \/ Longjmp \/ JmpResume

Jumped == jlast.op = "ppc_longjmp"
Registered(t, k) == k \in DOMAIN jlast.maps[t]

\* C14 as stated: ppc_longjmp(k, val) of a thread goes to the site of the
\* ppc_setjmp(k) that thread made, and aborts when that thread made none,
\* whatever the other threads registered.
C14_AsStated ==
    Jumped =>
        IF Registered(jlast.thread, jlast.key)
        THEN jlast.to = jlast.maps[jlast.thread][jlast.key].site
        ELSE jlast.to = "abort"

\* C14 for the keys alone: the jump aborts exactly when the thread itself
\* has not registered the key
C14_ThreadLocalKeys ==
    Jumped => (jlast.to = "abort" <=> ~Registered(jlast.thread, jlast.key))

\* a thread has aborted on a key that the other thread has registered
C14_WitnessOtherThread ==
    /\ Jumped /\ jlast.to = "abort"
    /\ \E u \in JmpThreads : u # jlast.thread /\ Registered(u, jlast.key)

---------------------------------------------------------------------------
(* Indirect calls (include/rex/kernel/format.h).  In recompiled code the   *)
(* function table follows the image in the arena, one pointer for every    *)
(* four bytes of code; a slot no function was registered for holds the     *)
(* zero bytes of fresh memory, a null pointer.                             *)

\* PPC_CODE_BASE of the recompiled image
CodeBase == -2113929216
\* slots of the function table
NumSlots == 3

Slots == 0 .. NumSlots - 1
HostFunctions == {"sub_A", "sub_B"}
CodeAddresses == {CodeBase + 4 * i : i \in Slots}

\* byte offset of the slot in the table, and the slot it is
SlotOffset(y) == (y - CodeBase) * 2
PPC_LOOKUP_FUNC(table, y) == table[SlotOffset(y) \div 8]

\* the outcomes of PPC_CALL_INDIRECT_FUNC(x): without ppc_config.h it is
\* __builtin_debugtrap(); with it, the call through the pointer of the
\* slot, which is undefined for a null pointer
PPC_CALL_INDIRECT_FUNC(table, included, x) ==
    IF ~included THEN {[kind |-> "trap", through |-> "none"]}
    ELSE LET f == PPC_LOOKUP_FUNC(table, x)
         IN  IF f = "nullptr"
             THEN {[kind |-> "fault", through |-> f], [kind |-> "undefined", through |-> f]}
             ELSE {[kind |-> "call", through |-> f]}

NoIndirect == [op |-> "none"]

CallInit ==
    /\ func_table = [i \in Slots |-> "nullptr"]
    /\ ppc_config_included \in BOOLEAN
    /\ clast = NoIndirect
CallIdle == func_table = <<>> /\ ppc_config_included = FALSE /\ clast = NoIndirect

\* the runtime registers a host function for a guest address
RegisterFunction ==
    /\ clast = NoIndirect
    /\ \E y \in CodeAddresses, f \in HostFunctions :
          func_table' = [func_table EXCEPT ![SlotOffset(y) \div 8] = f]
    /\ UNCHANGED <<ppc_config_included, clast>>
    /\ UNCHANGED notCall

\* emitted bctrl / blrl
CallIndirect ==
    /\ clast = NoIndirect
    /\ \E x \in CodeAddresses :
          \E outcome \in PPC_CALL_INDIRECT_FUNC(func_table, ppc_config_included, x) :
             clast' = [op |-> "PPC_CALL_INDIRECT_FUNC", x |-> x,
                       slot |-> (x - CodeBase) \div 4, outcome |-> outcome]
    /\ UNCHANGED <<func_table, ppc_config_included>>
    /\ UNCHANGED notCall

\* the called function returns, or the debugger continues after the trap
CallReturn ==
    /\ clast # NoIndirect /\ clast.outcome.kind \in {"call", "trap"}
    /\ clast' = NoIndirect
    /\ UNCHANGED <<func_table, ppc_config_included>>
    /\ UNCHANGED notCall

CallNext == RegisterFunction \/ CallIndirect \/ CallReturn

Called == clast.op = "PPC_CALL_INDIRECT_FUNC"

\* C15 as stated: an indirect call to an address whose slot is empty is a
\* trap, and is not a call through the pointer of the slot.
C15_AsStated ==
    (Called /\ func_table[clast.slot] = "nullptr") =>
        clast.outcome.kind = "trap" /\ clast.outcome.through = "none"

\* an indirect call to a registered address has gone to its function
C15_RegisteredCall ==
    (Called /\ ppc_config_included /\ func_table[clast.slot] # "nullptr") =>
        clast.outcome = [kind |-> "call", through |-> func_table[clast.slot]]

---------------------------------------------------------------------------
(* The configuration variables (cvar.cpp, include/rex/cvar.h).  A text is  *)
(* a sequence of characters, so that std::from_chars and std::to_string    *)
(* are computed.  The registry holds three flags, declared as               *)
(*   REXCVAR_DEFINE_STRING(backend, "d3d12", ..).allowed({"d3d12",         *)
(*       "vulkan"}).lifecycle(kInitOnly)                                   *)
(*   REXCVAR_DEFINE_INT32(scale, 1, ..).range(1, 8).lifecycle(kInitOnly)   *)
(*   REXCVAR_DEFINE_BOOL(vsync, false, ..)                                 *)

\* longest run of digits std::from_chars is given
MaxDigits == 2

D3D12 == <<"d", "3", "d", "1", "2">>
VULKAN == <<"v", "u", "l", "k", "a", "n">>
METAL == <<"m", "e", "t", "a", "l">>
TRUE_TEXT == <<"t", "r", "u", "e">>
FALSE_TEXT == <<"f", "a", "l", "s", "e">>

Digits == <<"0", "1", "2", "3", "4", "5", "6", "7", "8", "9">>
IsDigit(c) == \E d \in 1 .. 10 : Digits[d] = c
DigitValue(c) == (CHOOSE d \in 1 .. 10 : Digits[d] = c) - 1

\* std::from_chars for a signed integer: an optional minus sign and the
\* longest run of digits; what follows the digits is left unread
from_chars(text) ==
    LET neg == Len(text) > 0 /\ text[1] = "-"
        first == IF neg THEN 2 ELSE 1
        RECURSIVE run(_)
        run(i) == IF i <= Len(text) /\ IsDigit(text[i]) THEN run(i + 1) ELSE i
        stop == run(first)
        RECURSIVE num(_)
        num(i) == IF i < first THEN 0 ELSE num(i - 1) * 10 + DigitValue(text[i])
    IN  IF stop = first THEN [ec |-> "invalid_argument", value |-> 0]
        ELSE [ec |-> "", value |-> IF neg THEN 0 - num(stop - 1) ELSE num(stop - 1)]

\* std::to_string of an integer
RECURSIVE to_string(_)
to_string(n) ==
    IF n < 0 THEN <<"-">> \o to_string(0 - n)
    ELSE IF n < 10 THEN <<Digits[n + 1]>>
    ELSE to_string(n \div 10) \o <<Digits[(n % 10) + 1]>>

NoRange == [has |-> FALSE, min |-> 0, max |-> 0]
Range(min, max) == [has |-> TRUE, min |-> min, max |-> max]

GetRegistryStorage ==
    << [name |-> "backend", type |-> "String", lifecycle |-> "kInitOnly",
        range |-> NoRange, allowed_values |-> {D3D12, VULKAN},
        default_value |-> D3D12, env |-> "REX_BACKEND"],
       [name |-> "scale", type |-> "Int32", lifecycle |-> "kInitOnly",
        range |-> Range(1, 8), allowed_values |-> {},
        default_value |-> to_string(1), env |-> "REX_SCALE"],
       [name |-> "vsync", type |-> "Boolean", lifecycle |-> "kHotReload",
        range |-> NoRange, allowed_values |-> {},
        default_value |-> FALSE_TEXT, env |-> "REX_VSYNC"] >>

FlagNames == {GetRegistryStorage[i].name : i \in DOMAIN GetRegistryStorage}
GetRegistryIndex(name) ==
    IF name \in FlagNames
    THEN CHOOSE i \in DOMAIN GetRegistryStorage : GetRegistryStorage[i].name = name
    ELSE 0

\* gpu_vsync -> REX_GPU_VSYNC
FlagNameToEnvVar(name) == GetRegistryStorage[GetRegistryIndex(name)].env

\* the setter lambda of the REXCVAR_DEFINE_* macro of the entry's type
setter(flags, entry, v) ==
    CASE entry.type = "Boolean" ->
            [ok |-> TRUE,
             flags |-> [flags EXCEPT ![entry.name] =
                           v \in {TRUE_TEXT, <<"1">>, <<"y", "e", "s">>}]]
      [] entry.type = "String" ->
            [ok |-> TRUE, flags |-> [flags EXCEPT ![entry.name] = v]]
      [] OTHER ->
            LET r == from_chars(v)
            IN  IF r.ec # "" THEN [ok |-> FALSE, flags |-> flags]
                ELSE [ok |-> TRUE, flags |-> [flags EXCEPT ![entry.name] = r.value]]

ValidateConstraints(entry, value) ==
    LET r == from_chars(value)
        numeric == entry.type \notin {"String", "Boolean"}
    IN  /\ entry.range.has =>
              /\ numeric => r.ec = ""
              /\ LET numeric_val == IF numeric THEN r.value ELSE 0
                 IN  ~(numeric_val < entry.range.min) /\ ~(numeric_val > entry.range.max)
        /\ entry.allowed_values # {} => value \in entry.allowed_values

SetFlagByName(s, name, value) ==
    IF GetRegistryIndex(name) = 0 THEN [ok |-> FALSE, s |-> s]
    ELSE LET entry == GetRegistryStorage[GetRegistryIndex(name)]
         IN  IF ~s.g_lifecycle_override /\ entry.lifecycle = "kInitOnly" /\ s.g_finalized
             THEN [ok |-> FALSE, s |-> s]
             ELSE IF ~ValidateConstraints(entry, value) THEN [ok |-> FALSE, s |-> s]
             ELSE LET r == setter(s.FLAGS, entry, value)
                  IN  [ok |-> r.ok, s |-> [s EXCEPT !.FLAGS = r.flags]]

\* a value of the parsed TOML file as the text SetFlagByName is given
TomlText(value) ==
    CASE value.type = "boolean" -> IF value.v THEN TRUE_TEXT ELSE FALSE_TEXT
      [] value.type = "integer" -> to_string(value.v)
      [] OTHER -> value.v

\* the keys of the table in their order
RECURSIVE ApplyTomlTable(_, _)
ApplyTomlTable(s, table) ==
    IF table = <<>> THEN s
    ELSE ApplyTomlTable(SetFlagByName(s, Head(table).key, TomlText(Head(table).value)).s,
                        Tail(table))

LoadConfig(s, toml) == ApplyTomlTable(s, toml)

\* the callbacks of the options of the command line, in their order
RECURSIVE Init_entry(_, _)
Init_entry(s, args) ==
    IF args = <<>> THEN s
    ELSE LET a == Head(args)
             entry == GetRegistryStorage[GetRegistryIndex(a.name)]
             val == IF entry.type = "Boolean"
                    THEN (IF a.count > 0 THEN TRUE_TEXT ELSE FALSE_TEXT)
                    ELSE a.val
         IN  Init_entry([s EXCEPT !.FLAGS = setter(@, entry, val).flags], Tail(args))

RECURSIVE ApplyEnvironmentFrom(_, _, _)
ApplyEnvironmentFrom(s, environ, i) ==
    IF i > Len(GetRegistryStorage) THEN s
    ELSE LET entry == GetRegistryStorage[i]
             env_name == FlagNameToEnvVar(entry.name)
         IN  IF env_name \in DOMAIN environ
             THEN ApplyEnvironmentFrom(
                      [s EXCEPT !.FLAGS = setter(@, entry, environ[env_name]).flags],
                      environ, i + 1)
             ELSE ApplyEnvironmentFrom(s, environ, i + 1)

ApplyEnvironment(s, environ) == ApplyEnvironmentFrom(s, environ, 1)

ResetToDefault(s, name) ==
    IF GetRegistryIndex(name) = 0 THEN s
    ELSE LET entry == GetRegistryStorage[GetRegistryIndex(name)]
         IN  [s EXCEPT !.FLAGS = setter(@, entry, entry.default_value).flags]

RECURSIVE ResetAllFrom(_, _)
ResetAllFrom(s, i) ==
    IF i > Len(GetRegistryStorage) THEN s
    ELSE ResetAllFrom([s EXCEPT !.FLAGS =
                          setter(@, GetRegistryStorage[i],
                                 GetRegistryStorage[i].default_value).flags], i + 1)

ResetAllToDefaults(s) == ResetAllFrom(s, 1)

FinalizeInit(s) == [s EXCEPT !.g_finalized = TRUE]

NoCvarCall == [op |-> "none"]

CvarState == [FLAGS |-> FLAGS, g_finalized |-> g_finalized,
              g_lifecycle_override |-> g_lifecycle_override]

\* the state after static initialisation: every flag holds its default
CvarInit ==
    /\ FLAGS = [n \in FlagNames |->
                  CASE n = "backend" -> D3D12 [] n = "scale" -> 1 [] OTHER -> FALSE]
    /\ g_finalized = FALSE
    /\ g_lifecycle_override = FALSE
    /\ vlast = NoCvarCall
CvarIdle ==
    /\ FLAGS = <<>> /\ g_finalized = FALSE /\ g_lifecycle_override = FALSE
    /\ vlast = NoCvarCall

NumberTexts == {to_string(n) : n \in {0, 1, 5, 9, (10 ^ MaxDigits) - 1}}
ValueTexts == NumberTexts \cup {VULKAN, METAL, <<"5", "x">>, TRUE_TEXT}
ConfigEntries ==
    {[key |-> "scale", value |-> [type |-> "integer", v |-> n]] : n \in {5, 9}}
    \cup {[key |-> "backend", value |-> [type |-> "string", v |-> b]] : b \in {VULKAN, METAL}}
    \cup {[key |-> "vsync", value |-> [type |-> "boolean", v |-> TRUE]]}
Options ==
    {[name |-> "scale", val |-> v, count |-> 0] : v \in {to_string(5), to_string(9)}}
    \cup {[name |-> "backend", val |-> b, count |-> 0] : b \in {VULKAN, METAL}}
    \cup {[name |-> "vsync", val |-> <<>>, count |-> 1]}
UpTo2(S) == {<<a>> : a \in S} \cup {<<a, b>> : a \in S, b \in S}
Environments ==
    UNION {[S -> {VULKAN, to_string(9)}] :
              S \in (SUBSET {"REX_BACKEND", "REX_SCALE"}) \ {{}}}

CvarCall(op, s) ==
    /\ vlast = NoCvarCall
    /\ FLAGS' = s.FLAGS
    /\ g_finalized' = s.g_finalized
    /\ g_lifecycle_override' = s.g_lifecycle_override
    /\ vlast' = [op |-> op, pre |-> CvarState]
    /\ UNCHANGED notCvar

SetFlagByNameCall ==
    \E name \in FlagNames \cup {"unknown"}, value \in ValueTexts :
        CvarCall("SetFlagByName", SetFlagByName(CvarState, name, value).s)

LoadConfigCall ==
    \E toml \in UpTo2(ConfigEntries) : CvarCall("LoadConfig", LoadConfig(CvarState, toml))

InitCall ==
    \E args \in UpTo2(Options) : CvarCall("Init", Init_entry(CvarState, args))

ApplyEnvironmentCall ==
    \E environ \in Environments :
        CvarCall("ApplyEnvironment", ApplyEnvironment(CvarState, environ))

ResetToDefaultCall ==
    \E name \in FlagNames \cup {"unknown"} :
        CvarCall("ResetToDefault", ResetToDefault(CvarState, name))

ResetAllToDefaultsCall == CvarCall("ResetAllToDefaults", ResetAllToDefaults(CvarState))

FinalizeInitCall == CvarCall("FinalizeInit", FinalizeInit(CvarState))

\* constructor and destructor of testing::ScopedLifecycleOverride
ScopedLifecycleOverride ==
    /\ ~g_lifecycle_override
    /\ CvarCall("ScopedLifecycleOverride", [CvarState EXCEPT !.g_lifecycle_override = TRUE])

ScopedLifecycleOverrideEnd ==
    /\ g_lifecycle_override
    /\ CvarCall("~ScopedLifecycleOverride", [CvarState EXCEPT !.g_lifecycle_override = FALSE])

CvarReturn ==
    /\ vlast # NoCvarCall
    /\ vlast' = NoCvarCall
    /\ UNCHANGED <<FLAGS, g_finalized, g_lifecycle_override>>
    /\ UNCHANGED notCvar

CvarNext ==
    \/ SetFlagByNameCall \/ LoadConfigCall \/ InitCall \/ ApplyEnvironmentCall
    \/ ResetToDefaultCall \/ ResetAllToDefaultsCall \/ FinalizeInitCall
    \/ ScopedLifecycleOverride \/ ScopedLifecycleOverrideEnd \/ CvarReturn

Entry(n) == GetRegistryStorage[CHOOSE i \in DOMAIN GetRegistryStorage :
                                   GetRegistryStorage[i].name = n]
InitOnlyKept ==
    \A n \in FlagNames : Entry(n).lifecycle = "kInitOnly" => FLAGS[n] = vlast.pre.FLAGS[n]
Finalized == vlast.pre.g_finalized /\ ~vlast.pre.g_lifecycle_override

\* C16 as stated: after FinalizeInit and with no ScopedLifecycleOverride
\* active, none of SetFlagByName, LoadConfig, ApplyEnvironment, Init,
\* ResetToDefault, ResetAllToDefaults changes a kInitOnly flag.
C16_AsStated ==
    (vlast.op \in {"SetFlagByName", "LoadConfig", "ApplyEnvironment", "Init",
                   "ResetToDefault", "ResetAllToDefaults"} /\ Finalized)
        => InitOnlyKept

\* C16 for the two entry points that go through SetFlagByName
C16_ThroughSetFlagByName ==
    (vlast.op \in {"SetFlagByName", "LoadConfig"} /\ Finalized) => InitOnlyKept

Satisfies(n, value) ==
    /\ Entry(n).range.has => value >= Entry(n).range.min /\ value <= Entry(n).range.max
    /\ Entry(n).allowed_values # {} => value \in Entry(n).allowed_values
ConstraintsKept ==
    \A n \in FlagNames : FLAGS[n] = vlast.pre.FLAGS[n] \/ Satisfies(n, FLAGS[n])

\* C17 as stated: through SetFlagByName, LoadConfig, the command line of
\* Init and ApplyEnvironment a flag with a range or a list of allowed
\* values takes no value outside it: it keeps the value it had.
C17_AsStated ==
    vlast.op \in {"SetFlagByName", "LoadConfig", "Init", "ApplyEnvironment"}
        => ConstraintsKept

\* C17 for the two entry points that go through SetFlagByName
C17_ThroughSetFlagByName ==
    vlast.op \in {"SetFlagByName", "LoadConfig"} => ConstraintsKept

---------------------------------------------------------------------------
(* Code generation gate: Recompile(ctx, force) of codegen/recompile.cpp    *)
(* and its caller CodegenFromConfig.  The context holds the validation     *)
(* errors the analysis recorded; the output directory is a flag (whether   *)
(* it exists) and the set of its files.  A file name is the sequence of    *)
(* the pieces the clean-up looks at: what it starts with and its           *)
(* extension.  Recompiler::recompile lies outside the sources at hand: it  *)
(* writes some of the generated files and succeeds or fails.               *)

MaxErrors == 2

projectName == "game"
FileName(start, rest, ext) == <<start, rest, ext>>
GeneratedFiles ==
    {FileName("ppc_recomp", ".0", ".cpp"), FileName("sources", "", ".cmake"),
     FileName(projectName, "_init", ".h")}
OtherFiles ==
    {FileName("main", "", ".cpp"), FileName("ppc_recomp", "", ".txt"),
     FileName("sources", "_old", ".cmake")}
NoDirectory == [exists |-> FALSE, files |-> {}]

extension(filename) == filename[3]
\* filename == "sources.cmake"
IsSourcesCmake(filename) == filename = FileName("sources", "", ".cmake")
\* filename.starts_with(prefix), for the prefixes the clean-up names
starts_with(filename, prefix) ==
    \/ filename[1] = prefix
    \/ prefix = projectName \o "_"
         /\ filename[1] = projectName /\ filename[2] # "" /\ filename[2] = "_init"

create_directories(dir) == [dir EXCEPT !.exists = TRUE]

\* the loop that removes the files of an earlier generation
CleanUp(dir) ==
    [dir EXCEPT !.files =
        {f \in dir.files :
            ~ (/\ extension(f) \in {".cpp", ".h", ".cmake"}
               /\ \/ IsSourcesCmake(f)
                  \/ starts_with(f, projectName \o "_")
                  \/ starts_with(f, "ppc_recomp")
                  \/ starts_with(f, "ppc_func_mapping")
                  \/ starts_with(f, "function_table_init")
                  \/ starts_with(f, "ppc_config"))}]

\* Recompiler::recompile(force): an emission that wrote the files `written`
\* and returned `ok`
Recompiler_recompile(dir, emission) ==
    [ok |-> emission.ok, dir |-> [dir EXCEPT !.files = @ \cup emission.written]]
Emissions ==
    {[ok |-> TRUE, written |-> GeneratedFiles]}
    \cup {[ok |-> FALSE, written |-> w] : w \in SUBSET GeneratedFiles}

Err(category) == [ok |-> FALSE, category |-> category]
Ok == [ok |-> TRUE, category |-> "none"]

\* a Recompile that does not look at the recorded errors
Recompile_NoGate(count, dir, force_, emission) ==
    LET cleaned == CleanUp(create_directories(dir))
        r == Recompiler_recompile(cleaned, emission)
    IN [result |-> IF r.ok THEN Ok ELSE Err("Validation"), dir |-> r.dir, emitted |-> TRUE]

Recompile(count, dir, force_, emission) ==
    IF count > 0 /\ ~force_
    THEN [result |-> Err("Validation"), dir |-> dir, emitted |-> FALSE]
    ELSE LET cleaned == CleanUp(create_directories(dir))
             r == Recompiler_recompile(cleaned, emission)
         IN [result |-> IF r.ok THEN Ok ELSE Err("Validation"),
             dir |-> r.dir, emitted |-> TRUE]

NoRecompile == [op |-> "none"]

RecompInit ==
    /\ errors = 0
    /\ output_dir \in {NoDirectory} \cup
           {[exists |-> TRUE, files |-> fs] :
               fs \in {{}, OtherFiles, GeneratedFiles, OtherFiles \cup GeneratedFiles}}
    /\ rlast = NoRecompile
RecompIdle == errors = 0 /\ output_dir = <<>> /\ rlast = NoRecompile

\* the analysis records one more validation error in ctx.errors
RecordError ==
    /\ rlast = NoRecompile
    /\ errors < MaxErrors
    /\ errors' = errors + 1
    /\ UNCHANGED <<output_dir, rlast>>
    /\ UNCHANGED notRecomp

Run(op, force_) ==
    \E emission \in Emissions :
        LET r == Recompile(errors, output_dir, force_, emission)
        IN /\ rlast = NoRecompile
           /\ output_dir' = r.dir
           /\ rlast' = [op |-> op, force |-> force_, errors |-> errors,
                        pre |-> output_dir, result |-> r.result, emitted |-> r.emitted]
           /\ UNCHANGED errors
           /\ UNCHANGED notRecomp

RecompileCall == \E force_ \in BOOLEAN : Run("Recompile", force_)

\* CodegenFromConfig hands the --force of the command line to the pipeline
CodegenFromConfig ==
    \E cli \in [verbose : {FALSE}, force : BOOLEAN, enableExceptionHandlers : BOOLEAN] :
        Run("CodegenFromConfig", cli.force)

RecompileReturn ==
    /\ rlast # NoRecompile
    /\ rlast' = NoRecompile
    /\ UNCHANGED <<errors, output_dir>>
    /\ UNCHANGED notRecomp

RecompNext == RecordError \/ RecompileCall \/ CodegenFromConfig \/ RecompileReturn

Recompiled == rlast.op # "none"

\* C18: with validation errors recorded and force false, Recompile returns
\* a validation error, emits nothing and leaves the output directory as it
\* was (none created, no file removed or written); with force true the
\* recorded errors do not keep it from emitting.
C18_ForceGate ==
    Recompiled =>
        /\ (rlast.errors > 0 /\ ~rlast.force) =>
               /\ rlast.result = Err("Validation")
               /\ ~rlast.emitted
               /\ output_dir = rlast.pre
        /\ rlast.force => rlast.emitted /\ output_dir.exists

\* a blocked run over a directory that holds generated files
C18_Witness ==
    /\ Recompiled /\ rlast.errors > 0 /\ ~rlast.force
    /\ rlast.pre.files \cap GeneratedFiles # {}
    /\ output_dir = rlast.pre

\* a forced run with errors recorded that emitted every generated file
C18_WitnessForce ==
    /\ Recompiled /\ rlast.errors > 0 /\ rlast.force /\ rlast.result = Ok
    /\ ~rlast.pre.exists /\ GeneratedFiles \subseteq output_dir.files

---------------------------------------------------------------------------
(* Saturating vector word arithmetic: the code that build_vaddsws,         *)
(* build_vadduws, build_vsubsws and build_vsubuws emit, run on a vector    *)
(* register of four 32-bit lanes.  A lane is its four bytes, least         *)
(* significant first, so that the byte-wise and the lane-wise SIMD         *)
(* operations are both what they are on the host; sums that leave 32 bits  *)
(* are kept as a pair of a high part and a low 16-bit part.                *)

LaneBytes == 4
NumLanes == 4
LaneIndex == 1 .. NumLanes

RECURSIVE BitAnd(_, _)
BitAnd(x, y) ==
    IF x = 0 \/ y = 0 THEN 0
    ELSE (x % 2) * (y % 2) + 2 * BitAnd(x \div 2, y \div 2)
RECURSIVE BitXor(_, _)
BitXor(x, y) ==
    IF x = 0 THEN y ELSE IF y = 0 THEN x
    ELSE ((x + y) % 2) + 2 * BitXor(x \div 2, y \div 2)

\* halves of a lane and the lane of two halves
LoHalf(l) == l[1] + 256 * l[2]
HiHalf(l) == l[3] + 256 * l[4]
FromHalves(hi, lo) == <<lo % 256, lo \div 256, hi % 256, hi \div 256>>
\* the lane read as int32_t / uint32_t, as a pair hi * 65536 + lo
s32(l) == [hi |-> IF HiHalf(l) >= 32768 THEN HiHalf(l) - 65536 ELSE HiHalf(l),
           lo |-> LoHalf(l)]
u32_lane(l) == [hi |-> HiHalf(l), lo |-> LoHalf(l)]
Less(x, y) == x.hi < y.hi \/ (x.hi = y.hi /\ x.lo < y.lo)
INT_MAX == [hi |-> 32767, lo |-> 65535]
INT_MIN == [hi |-> -32768, lo |-> 0]
UINT_MAX == [hi |-> 65535, lo |-> 65535]
Zero64 == [hi |-> 0, lo |-> 0]
\* exact sum and difference of two such pairs
Plus(x, y) == [hi |-> x.hi + y.hi + ((x.lo + y.lo) \div 65536), lo |-> (x.lo + y.lo) % 65536]
Minus(x, y) ==
    [hi |-> x.hi - y.hi - (IF x.lo < y.lo THEN 1 ELSE 0), lo |-> (x.lo - y.lo) % 65536]
\* the 32-bit lane that holds the low 32 bits of a pair
Truncate(x) == FromHalves(x.hi % 65536, x.lo)

add_epi32(a, b) == Truncate(Plus(u32_lane(a), u32_lane(b)))
sub_epi32(a, b) == Truncate(Minus(u32_lane(a), u32_lane(b)))
xor_si128(a, b) == [i \in 1 .. LaneBytes |-> BitXor(a[i], b[i])]
and_si128(a, b) == [i \in 1 .. LaneBytes |-> BitAnd(a[i], b[i])]
\* arithmetic shift right by 31: the sign bit in every position
srai_epi32_31(a) == IF a[4] >= 128 THEN <<255, 255, 255, 255>> ELSE <<0, 0, 0, 0>>
set1_epi32_7FFFFFFF == <<255, 255, 255, 127>>
cmpeq_epi32(a, b) == IF a = b THEN <<255, 255, 255, 255>> ELSE <<0, 0, 0, 0>>
min_epu32(a, b) == IF Less(u32_lane(b), u32_lane(a)) THEN b ELSE a
\* byte-wise blend: each byte comes from b where the top bit of the
\* mask's byte is set, from a elsewhere
blendv_epi8(a, b, mask) == [i \in 1 .. LaneBytes |-> IF mask[i] >= 128 THEN b[i] ELSE a[i]]

simde_mm_adds_epu32(a, b) == add_epi32(a, min_epu32(xor_si128(a, cmpeq_epi32(a, a)), b))

\* the emitted code of each instruction, on lane i of the operands
vaddsws_lane(a, b) ==
    LET sum == add_epi32(a, b)
        overflow == and_si128(xor_si128(a, sum), xor_si128(b, sum))
        sat_val == xor_si128(srai_epi32_31(a), set1_epi32_7FFFFFFF)
    IN blendv_epi8(sum, sat_val, overflow)

vsubsws_lane(a, b) ==
    LET temp == Minus(s32(a), s32(b))
    IN IF Less(INT_MAX, temp) THEN Truncate(INT_MAX)
       ELSE IF Less(temp, INT_MIN) THEN Truncate(INT_MIN) ELSE Truncate(temp)

vsubuws_lane(a, b) == sub_epi32(a, min_epu32(a, b))

\* emit_vec_int_binary("adds_epu32", "u32"): store(vD, simde_mm_adds_epu32(vA, vB))
emit_vec_int_binary_adds_epu32(a, b) == simde_mm_adds_epu32(a, b)

build_vaddsws(vA, vB) == [i \in LaneIndex |-> vaddsws_lane(vA[i], vB[i])]
build_vadduws(vA, vB) == [i \in LaneIndex |-> emit_vec_int_binary_adds_epu32(vA[i], vB[i])]
build_vsubsws(vA, vB) == [i \in LaneIndex |-> vsubsws_lane(vA[i], vB[i])]
build_vsubuws(vA, vB) == [i \in LaneIndex |-> vsubuws_lane(vA[i], vB[i])]

LaneValues ==
    {<<0, 0, 0, 0>>, <<1, 0, 0, 0>>, <<128, 0, 0, 0>>,
     <<255, 255, 255, 127>>, <<0, 0, 0, 128>>, <<255, 255, 255, 255>>}
\* vectors with one lane that differs from the others
VectorValues ==
    {[i \in LaneIndex |-> IF i = k THEN x ELSE y] :
        k \in {1, NumLanes}, x \in LaneValues, y \in LaneValues}

NoVector == [op |-> "none"]

ZeroVector == [i \in LaneIndex |-> <<0, 0, 0, 0>>]

\* the operand registers hold any two of the vectors; vscr_sat is clear
VsatInit ==
    /\ vr \in {[vA |-> a, vB |-> b, vD |-> ZeroVector] :
                  a \in VectorValues, b \in VectorValues}
    /\ vscr_sat = 0
    /\ slast = NoVector
VsatIdle == vr = <<>> /\ vscr_sat = 0 /\ slast = NoVector

\* one emitted instruction runs on vA and vB and stores d in vD; none of
\* the four writes ctx.vscr_sat
Execute(op, d) ==
    /\ slast = NoVector
    /\ vr' = [vr EXCEPT !.vD = d]
    /\ slast' = [op |-> op]
    /\ UNCHANGED vscr_sat
    /\ UNCHANGED notVsat

Vaddsws == Execute("vaddsws", build_vaddsws(vr.vA, vr.vB))
Vadduws == Execute("vadduws", build_vadduws(vr.vA, vr.vB))
Vsubsws == Execute("vsubsws", build_vsubsws(vr.vA, vr.vB))
Vsubuws == Execute("vsubuws", build_vsubuws(vr.vA, vr.vB))

VsatReturn ==
    /\ slast # NoVector
    /\ slast' = NoVector
    /\ UNCHANGED <<vr, vscr_sat>>
    /\ UNCHANGED notVsat

VsatNext == Vaddsws \/ Vadduws \/ Vsubsws \/ Vsubuws \/ VsatReturn

\* the exact result of the instruction on two lanes, and its clamp
Exact(op, a, b) ==
    CASE op = "vaddsws" -> Plus(s32(a), s32(b))
      [] op = "vsubsws" -> Minus(s32(a), s32(b))
      [] op = "vadduws" -> Plus(u32_lane(a), u32_lane(b))
      [] OTHER -> Minus(u32_lane(a), u32_lane(b))
Floor(op) == IF op \in {"vaddsws", "vsubsws"} THEN INT_MIN ELSE Zero64
Ceiling(op) == IF op \in {"vaddsws", "vsubsws"} THEN INT_MAX ELSE UINT_MAX
Clamps(op, a, b) == Less(Exact(op, a, b), Floor(op)) \/ Less(Ceiling(op), Exact(op, a, b))
Clamp(op, a, b) ==
    IF Less(Exact(op, a, b), Floor(op)) THEN Truncate(Floor(op))
    ELSE IF Less(Ceiling(op), Exact(op, a, b)) THEN Truncate(Ceiling(op))
    ELSE Truncate(Exact(op, a, b))
Saturates(ops) ==
    slast.op \in ops => \A i \in LaneIndex : vr.vD[i] = Clamp(slast.op, vr.vA[i], vr.vB[i])

\* C19 as stated: in every 32-bit lane vaddsws yields clamp(a + b,
\* INT32_MIN, INT32_MAX), vsubsws clamp(a - b, INT32_MIN, INT32_MAX),
\* vadduws min(a + b, 2^32 - 1) and vsubuws max(a - b, 0), the sum or
\* difference being the exact one.
C19_AsStated == Saturates({"vaddsws", "vsubsws", "vadduws", "vsubuws"})

\* C19 for the three instructions other than vaddsws
C19_OtherThree == Saturates({"vsubsws", "vadduws", "vsubuws"})

\* C20 as stated: after a saturating vector instruction vscr_sat is set
\* exactly when at least one element of the result was clamped.
C20_AsStated ==
    slast.op # "none" =>
        (vscr_sat # 0 <=> \E i \in LaneIndex : Clamps(slast.op, vr.vA[i], vr.vB[i]))

---------------------------------------------------------------------------
(* C21: committed pages are reserved.                                      *)

Committed(pt, h, n) == kMemoryAllocationCommit \in pt[h][n].state
Reserved(pt, h, n) == kMemoryAllocationReserve \in pt[h][n].state

C21_WitnessQuery ==
    /\ nlast.op = "NtQueryVirtualMemory" /\ nlast.status = "X_STATUS_SUCCESS"
    /\ nlast.info.state = "X_MEM_COMMIT"

---------------------------------------------------------------------------
(* Vector splat: the code that build_vspltb, build_vsplth and build_vspltw *)
(* emit.  A vector register is its sixteen bytes in host order, byte 0     *)
(* first; host lane j of a view of w-byte elements is bytes j*w .. j*w+w-1.*)
(* The guest numbers the elements from the other end.                      *)

VectorBytes == 16
ByteIndex == 0 .. VectorBytes - 1

\* char(0x..) and short(0x..) of the emitted constant
char(x) == x % 256
short(x) == x % 65536
simde_mm_set1_epi8(c) == [i \in ByteIndex |-> c]
simde_mm_set1_epi16(h) == [i \in ByteIndex |-> IF i % 2 = 0 THEN h % 256 ELSE h \div 256]
\* byte i of the result is byte (b[i] & 15) of a, or 0 when bit 7 of b[i] is set
simde_mm_shuffle_epi8(a, b) ==
    [i \in ByteIndex |-> IF b[i] >= 128 THEN 0 ELSE a[b[i] % 16]]
\* 32-bit lane j of the result is lane (imm8 >> 2j) & 3 of a
simde_mm_shuffle_epi32(a, imm8) ==
    [i \in ByteIndex |-> a[4 * ((imm8 \div (4 ^ (i \div 4))) % 4) + (i % 4)]]

build_vspltb(vA, uimm) ==
    LET perm == 15 - uimm
    IN simde_mm_shuffle_epi8(vA, simde_mm_set1_epi8(char(perm)))

build_vsplth(vA, uimm) ==
    LET perm0 == 7 - uimm
        perm == (perm0 * 2) + ((perm0 * 2 + 1) * 256)
    IN simde_mm_shuffle_epi8(vA, simde_mm_set1_epi16(short(perm)))

\* a vspltw that takes the guest's element number for the host lane
build_vspltw_NoReversal(vA, uimm) ==
    simde_mm_shuffle_epi32(vA, uimm + (uimm * 4) + (uimm * 16) + (uimm * 64))

build_vspltw(vA, uimm) ==
    LET perm0 == 3 - uimm
        perm == perm0 + (perm0 * 4) + (perm0 * 16) + (perm0 * 64)
    IN simde_mm_shuffle_epi32(vA, perm)

\* source registers: bytes that are all different, and bytes up to 0xFF
SplatSources ==
    {[i \in ByteIndex |-> 16 * c + i] : c \in {0, 1, 7, 15}}
    \cup {[i \in ByteIndex |-> 255 - (i \div 4)]}

NoSplat == [op |-> "none", uimm |-> 0, width |-> 0]

SplatInit ==
    /\ sreg \in {[vA |-> a, vD |-> [i \in ByteIndex |-> 0]] : a \in SplatSources}
    /\ plast = NoSplat
SplatIdle == sreg = <<>> /\ plast = NoSplat

Splat(op, width, uimm, d) ==
    /\ plast = NoSplat
    /\ sreg' = [sreg EXCEPT !.vD = d]
    /\ plast' = [op |-> op, uimm |-> uimm, width |-> width]
    /\ UNCHANGED notSplat

Vspltb == \E uimm \in 0 .. 15 : Splat("vspltb", 1, uimm, build_vspltb(sreg.vA, uimm))
Vsplth == \E uimm \in 0 .. 7 : Splat("vsplth", 2, uimm, build_vsplth(sreg.vA, uimm))
Vspltw == \E uimm \in 0 .. 3 : Splat("vspltw", 4, uimm, build_vspltw(sreg.vA, uimm))

SplatReturn ==
    /\ plast # NoSplat
    /\ plast' = NoSplat
    /\ UNCHANGED sreg
    /\ UNCHANGED notSplat

SplatNext == Vspltb \/ Vsplth \/ Vspltw \/ SplatReturn

\* byte k of host lane j of a view of elements of w bytes
HostLane(v, w, j, k) == v[j * w + k]
\* byte k of guest element n of that view: host lane N - 1 - n
GuestElement(v, w, n, k) == HostLane(v, w, (VectorBytes \div w) - 1 - n, k)

\* C22: for every element index n, after vspltb, vsplth and vspltw every
\* lane of vD holds guest element n of vA, which is host lane N - 1 - n of
\* the N elements (for vspltw host lane 3 - n; n = 0 broadcasts host lane 3).
C22_SplatGuestElement ==
    plast.op # "none" =>
        \A j \in 0 .. (VectorBytes \div plast.width) - 1 : \A k \in 0 .. plast.width - 1 :
            HostLane(sreg.vD, plast.width, j, k)
                = GuestElement(sreg.vA, plast.width, plast.uimm, k)

\* vspltw with n = 0 has filled vD with host lane 3 of a vA whose lanes differ
C22_Witness ==
    /\ plast.op = "vspltw" /\ plast.uimm = 0
    /\ \A i \in ByteIndex : sreg.vA[i] = i
    /\ \A i \in ByteIndex : sreg.vD[i] = 12 + (i % 4)

\* vspltb and vsplth of an inner element
C22_WitnessByte ==
    /\ plast.op = "vspltb" /\ plast.uimm = 5
    /\ \A i \in ByteIndex : sreg.vA[i] = i /\ sreg.vD[i] = 10
C22_WitnessHalf ==
    /\ plast.op = "vsplth" /\ plast.uimm = 2
    /\ \A i \in ByteIndex : sreg.vA[i] = i /\ sreg.vD[i] = 10 + (i % 2)

---------------------------------------------------------------------------
(* format_core of include/rex/kernel/format.h: the printf state machine    *)
(* behind the guest's sprintf family.  Characters are their codes; a       *)
(* format string is the sequence of its codes without the terminator.  An  *)
(* argument is a 64-bit slot, kept as four 16-bit limbs, least significant *)
(* first, so that the 32- and 64-bit readings and the unsigned digits of a *)
(* negative argument are what they are in the code.                        *)

Ascii == <<" ", "!", "quote", "#", "$", "%", "&", "'", "(", ")", "*", "+", ",", "-", ".", "/",
           "0", "1", "2", "3", "4", "5", "6", "7", "8", "9", ":", ";", "<", "=", ">", "?",
           "@", "A", "B", "C", "D", "E", "F", "G", "H", "I", "J", "K", "L", "M", "N", "O",
           "P", "Q", "R", "S", "T", "U", "V", "W", "X", "Y", "Z", "[", "backslash", "]", "^", "_",
           "backtick", "a", "b", "c", "d", "e", "f", "g", "h", "i", "j", "k", "l", "m", "n", "o",
           "p", "q", "r", "s", "t", "u", "v", "w", "x", "y", "z">>
\* the code of a character, and the codes of a text
Ord(ch) == 31 + (CHOOSE i \in DOMAIN Ascii : Ascii[i] = ch)
Str(text) == [i \in DOMAIN text |-> Ord(text[i])]
Repeat(c, n) == [i \in 1 .. n |-> c]

\* the 64-bit slot that holds the integer n, sign extended
Slot(n) ==
    <<n % 65536, (n \div 65536) % 65536,
      IF n < 0 THEN 65535 ELSE 0, IF n < 0 THEN 65535 ELSE 0>>
\* the bits of the double 2.5
Slot2_5 == <<0, 0, 0, 16388>>
ZeroLimbs == <<0, 0, 0, 0>>
IsNegative64(v) == v[4] >= 32768
\* (int32_t)x and (int16_t)x of the low bits, as 64-bit values
SignExtend32(v) ==
    <<v[1], v[2], IF v[2] >= 32768 THEN 65535 ELSE 0, IF v[2] >= 32768 THEN 65535 ELSE 0>>
SignExtend16_64(v) ==
    LET f == IF v[1] >= 32768 THEN 65535 ELSE 0 IN <<v[1], f, f, f>>
\* value & UINT32_MAX
Low32(v) == <<v[1], v[2], 0, 0>>
\* -value in 64 bits
Negate64(v) ==
    LET n1 == (65536 - v[1]) % 65536
        c1 == IF v[1] = 0 THEN 1 ELSE 0
        n2 == (65535 - v[2] + c1) % 65536
        c2 == IF c1 = 1 /\ v[2] = 0 THEN 1 ELSE 0
        n3 == (65535 - v[3] + c2) % 65536
        c3 == IF c2 = 1 /\ v[3] = 0 THEN 1 ELSE 0
        n4 == (65535 - v[4] + c3) % 65536
    IN <<n1, n2, n3, n4>>
\* the int32_t a slot holds in its low half
Int32Of(v) ==
    LET u == v[1] + 65536 * (v[2] % 32768)
    IN IF v[2] >= 32768 THEN u - 1073741824 - 1073741824 ELSE u
\* value / radix and value % radix of an unsigned 64-bit value
DivMod64(v, radix) ==
    LET t4 == v[4]
        t3 == (t4 % radix) * 65536 + v[3]
        t2 == (t3 % radix) * 65536 + v[2]
        t1 == (t2 % radix) * 65536 + v[1]
    IN [quot |-> <<t1 \div radix, t2 \div radix, t3 \div radix, t4 \div radix>>,
        rem |-> t1 % radix]
\* digits[digit] for the digit strings of the conversions
DigitChar(digit, upper) ==
    IF digit < 10 THEN Ord("0") + digit
    ELSE (IF upper THEN Ord("A") ELSE Ord("a")) + digit - 10

\* the digits of value, most significant first; none for zero
RECURSIVE ValueDigits(_, _, _)
ValueDigits(value, radix, upper) ==
    IF value = ZeroLimbs THEN <<>>
    ELSE LET d == DivMod64(value, radix)
         IN Append(ValueDigits(d.quot, radix, upper), DigitChar(d.rem, upper))
\* the loop "while (precision-- > 0 || value != 0) *--start = digits[...]":
\* the characters it stores, most significant first: the digits of value,
\* and zeros before them while precision lasts
DigitLoop(value, precision, radix, upper) ==
    LET digits == ValueDigits(value, radix, upper)
    IN (IF precision > Len(digits) THEN Repeat(Ord("0"), precision - Len(digits)) ELSE <<>>)
       \o digits

\* guest memory behind the pointers of %s: a narrow string "hi" at 16 and
\* a big-endian wide string "hi" at 24
GuestBytes(pointer) ==
    IF pointer = 16 THEN <<Ord("h"), Ord("i"), 0, 0>>
    ELSE IF pointer = 24 THEN <<0, Ord("h"), 0, Ord("i"), 0, 0>>
    ELSE <<0, 0>>
\* the bytes before the first zero byte, at most cap of them
RECURSIVE NarrowString(_, _)
NarrowString(bytes, cap) ==
    IF cap <= 0 \/ bytes = <<>> \/ Head(bytes) = 0 THEN <<>>
    ELSE <<Head(bytes)>> \o NarrowString(Tail(bytes), cap - 1)
\* the 16-bit units before the first zero unit, byte swapped
RECURSIVE WideString(_, _)
WideString(bytes, cap) ==
    IF cap <= 0 \/ Len(bytes) < 2 \/ (bytes[1] = 0 /\ bytes[2] = 0) THEN <<>>
    ELSE <<bytes[1] * 256 + bytes[2]>> \o WideString(Tail(Tail(bytes)), cap - 1)

\* the double a slot holds: 2.5, or, for the other slots used here, a
\* denormal that prints as zero (small non-negative integers) or a NaN
\* with the sign bit (small negative integers)
AsDouble(v) ==
    IF v = Slot2_5 THEN [nan |-> FALSE, int |-> 2, frac |-> <<Ord("5")>>]
    ELSE IF IsNegative64(v) THEN [nan |-> TRUE, int |-> 0, frac |-> <<>>]
    ELSE [nan |-> FALSE, int |-> 0, frac |-> <<>>]

\* format_double for c = 'f': std::fixed with the precision
format_double(value, precision, c, flags) ==
    LET p == IF precision < 0 THEN 6 ELSE precision
        whole == <<Ord("0") + value.int>>
        frac == [i \in 1 .. p |-> IF i <= Len(value.frac) THEN value.frac[i] ELSE Ord("0")]
    IN IF value.nan THEN Str(<<"-", "n", "a", "n">>)
       ELSE IF p > 0 THEN whole \o <<Ord(".")>> \o frac
       ELSE IF "FF_AddPrefix" \in flags THEN whole \o <<Ord(".")>>
       ELSE whole

WorkSize == 512

\* the machine of one call: what is left of the format and of the
\* arguments, the characters put so far, the locals of format_core, the
\* lowest and highest index of work8 written (0 before any write), the
\* stores of %n, the result
Machine(format, args, wide, narrow_data, ndebug) ==
    [input |-> format, args |-> args, out |-> <<>>, count |-> 0, state |-> "FS_Unknown",
     flags |-> {}, width |-> 0, precision |-> -1, prefix |-> <<>>,
     wide |-> wide, narrow_data |-> narrow_data, ndebug |-> ndebug,
     lo |-> 0, hi |-> 0, stores |-> <<>>,
     ret |-> [done |-> FALSE, value |-> 0, why |-> "running"]]

\* data.get(), data.peek(n), data.skip(n)
DataGet(m) ==
    [c |-> IF m.input = <<>> THEN 0 ELSE Head(m.input),
     m |-> [m EXCEPT !.input = IF @ = <<>> THEN @ ELSE Tail(@)]]
DataPeek(m, offset) == IF Len(m.input) > offset THEN m.input[offset + 1] ELSE 0
DataSkip(m, n) ==
    [m EXCEPT !.input = IF Len(@) <= n THEN <<>> ELSE SubSeq(@, n + 1, Len(@))]
\* args.get64(); the memory behind the last argument holds zeros
ArgGet(m) ==
    [v |-> IF m.args = <<>> THEN ZeroLimbs ELSE Head(m.args),
     m |-> [m EXCEPT !.args = IF @ = <<>> THEN @ ELSE Tail(@)]]

\* "return count" at the end of the format, "return -1" after a put that
\* failed, "return -1" at a format that ends inside a conversion
Returns(m, value, why) == [m EXCEPT !.ret = [done |-> TRUE, value |-> value, why |-> why]]
\* a failed assert ends the process, where asserts are compiled in
AssertFails(m) == [m EXCEPT !.ret = [done |-> TRUE, value |-> 0, why |-> "assert"]]

\* data.put(c) for each character of text, up to the first that fails:
\* StringFormatData refuses a character from 0x100 on
FirstRefused(m, text) ==
    LET bad == {i \in DOMAIN text : m.narrow_data /\ text[i] >= 256}
    IN IF bad = {} THEN 0 ELSE CHOOSE i \in bad : \A j \in bad : i <= j
PutAll(m, text) ==
    LET Upto(stop) ==
            [ok |-> stop = 0,
             m |-> [m EXCEPT !.out = @ \o (IF stop = 0 THEN text ELSE SubSeq(text, 1, stop - 1))]]
    IN Upto(FirstRefused(m, text))
\* the end of a conversion: "return -1" after a put that failed, or
\* "state = FS_Unknown" with the count advanced
Counted(p, counted) ==
    IF ~p.ok THEN Returns(p.m, -1, "put")
    ELSE [p.m EXCEPT !.count = @ + counted, !.state = "FS_Unknown"]

\* the prefix after "if (flags & FF_IsSigned)"
SignPrefix(m) ==
    IF "FF_IsSigned" \notin m.flags THEN m.prefix
    ELSE IF "FF_AddNegative" \in m.flags THEN <<Ord("-")>>
    ELSE IF "FF_AddPositive" \in m.flags THEN <<Ord("+")>>
    ELSE IF "FF_AddPositiveAsSpace" \in m.flags THEN <<Ord(" ")>>
    ELSE m.prefix

\* a FormatOutput that does not count the prefix
FormatOutput_PrefixUncounted(m, text) ==
    LET Pad(prefix, padding) ==
            Counted(PutAll(m, (IF padding > 0 THEN Repeat(Ord(" "), padding) ELSE <<>>)
                              \o prefix \o text),
                    (IF padding > 0 THEN padding ELSE 0) + Len(text))
        Padded(prefix) == Pad(prefix, m.width - Len(text) - Len(prefix))
    IN Padded(SignPrefix(m))

\* the code after the switch: sign prefix, left padding, prefix, leading
\* zeros, text, right padding; padding is -1 once a loop has used it up
FormatOutput(m, text) ==
    LET Pad(prefix, padding) ==
            LET left == m.flags \cap {"FF_LeftJustify", "FF_AddLeadingZeros"} = {}
                zeros == "FF_AddLeadingZeros" \in m.flags /\ "FF_LeftJustify" \notin m.flags
                right == "FF_LeftJustify" \in m.flags
                some == padding > 0
            IN Counted(PutAll(m, (IF left /\ some THEN Repeat(Ord(" "), padding) ELSE <<>>)
                                 \o prefix
                                 \o (IF ~left /\ zeros /\ some
                                     THEN Repeat(Ord("0"), padding) ELSE <<>>)
                                 \o text
                                 \o (IF ~left /\ ~zeros /\ right /\ some
                                     THEN Repeat(Ord(" "), padding) ELSE <<>>)),
                       (IF left /\ some THEN padding ELSE 0)
                       + Len(prefix)
                       + (IF ~left /\ zeros /\ some THEN padding ELSE 0)
                       + Len(text)
                       + (IF ~left /\ ~zeros /\ right /\ some THEN padding ELSE 0))
        Padded(prefix) == Pad(prefix, m.width - Len(text) - Len(prefix))
    IN Padded(SignPrefix(m))

\* work8[i] is written for every i of lo .. hi
Writes(m, lo, hi) ==
    [m EXCEPT !.lo = IF lo < @ THEN lo ELSE @, !.hi = IF hi > @ THEN hi ELSE @]

IsWideText(m) ==
    IF m.flags \cap {"FF_IsLong", "FF_IsWide"} # {} THEN TRUE
    ELSE IF "FF_IsShort" \in m.flags THEN FALSE
    ELSE ("FF_InvertWide" \in m.flags) # m.wide

\* the label "integer:" of case 'd': the machine and the digits in work8
IntegerConversion(m0, radix, upper) ==
    LET Stored(m, text) ==
            [m |-> Writes(m, WorkSize - 1 - Len(text), WorkSize - 1), text |-> text]
        Forced(m, digits) ==
            Stored(m,
                   IF /\ "FF_ForceLeadingZero" \in m.flags
                      /\ (digits = <<>> \/ Head(digits) # Ord("0"))
                   THEN <<Ord("0")>> \o digits ELSE digits)
        Loop(m, value) ==
            Forced([m EXCEPT !.prefix = IF value = ZeroLimbs THEN <<>> ELSE @],
                   DigitLoop(value, m.precision, radix, upper))
        Masked(m, value) ==
            Loop(m, IF "FF_IsLongLong" \in m.flags THEN value ELSE Low32(value))
        Signed(m, value) ==
            IF "FF_IsSigned" \in m.flags /\ IsNegative64(value)
            THEN Masked([m EXCEPT !.flags = @ \cup {"FF_AddNegative"}], Negate64(value))
            ELSE Masked(m, value)
        Capped(m, value) ==
            Signed([m EXCEPT !.precision =
                       IF @ >= 0 THEN (IF @ < WorkSize THEN @ ELSE WorkSize) ELSE 1],
                   value)
        Read(a) ==
            Capped(a.m,
                   IF "FF_IsLongLong" \in a.m.flags THEN a.v
                   ELSE IF "FF_IsLong" \in a.m.flags THEN SignExtend32(a.v)
                   ELSE IF "FF_IsShort" \in a.m.flags THEN SignExtend16_64(a.v)
                   ELSE SignExtend32(a.v))
    IN Read(ArgGet(m0))

\* case 'c' and case 's': the text of the argument
CharConversion(m) ==
    LET Read(a) ==
            IF ~IsWideText(m) THEN [m |-> Writes(a.m, 0, 0), text |-> <<a.v[1] % 256>>]
            ELSE [m |-> a.m, text |-> <<a.v[1]>>]
    IN Read(ArgGet(m))
StringConversion(m) ==
    LET cap == IF m.precision < 0 THEN 2147483647 ELSE m.precision
        Read(a, pointer) ==
            [m |-> a.m,
             text |-> IF pointer = 0
                      THEN SubSeq(Str(<<"(", "n", "u", "l", "l", ")">>), 1,
                                  IF cap < 6 THEN cap ELSE 6)
                      ELSE IF IsWideText(m) THEN WideString(GuestBytes(pointer), cap)
                      ELSE NarrowString(GuestBytes(pointer), cap)]
        Pointer(a) == Read(a, Int32Of(a.v))
    IN Pointer(ArgGet(m))
\* case 'f'
DoubleConversion(m, c) ==
    LET Copied(am, s) == [m |-> Writes(am, 0, Len(s)), text |-> s]
        Read(a) == Copied(a.m, format_double(AsDouble(a.v), a.m.precision, c, a.m.flags))
    IN Read(ArgGet(m))
\* case 'n': PPC_STORE_U16 / PPC_STORE_U32 of the count
StoreCount(m) ==
    LET Read(a) ==
            [a.m EXCEPT !.stores =
                Append(@, [pointer |-> Int32Of(a.v),
                           bits |-> IF "FF_IsShort" \in m.flags THEN 16 ELSE 32,
                           value |-> m.count])]
    IN Read(ArgGet(m))

\* what the cases of "switch (c)" set before they reach "integer:" or break
TypeFlags(m, c) ==
    CASE c \in {Ord("C"), Ord("S")} -> [m EXCEPT !.flags = @ \cup {"FF_InvertWide"}]
      [] c \in {Ord("d"), Ord("i"), Ord("f")} -> [m EXCEPT !.flags = @ \cup {"FF_IsSigned"}]
      [] c = Ord("o") /\ "FF_AddPrefix" \in m.flags ->
            [m EXCEPT !.flags = @ \cup {"FF_ForceLeadingZero"}]
      [] c \in {Ord("x"), Ord("X")} /\ "FF_AddPrefix" \in m.flags ->
            [m EXCEPT !.prefix = <<Ord("0"), c>>]
      [] c = Ord("p") ->
            [m EXCEPT !.precision = 8,
                      !.flags = (@ \ {"FF_IsLongLong", "FF_IsShort"}) \cup {"FF_IsLong"}]
      [] OTHER -> m
Radix(c) == IF c = Ord("o") THEN 8 ELSE IF c \in {Ord("x"), Ord("X"), Ord("p")} THEN 16 ELSE 10
IntegerTypes == {Ord("d"), Ord("i"), Ord("o"), Ord("u"), Ord("x"), Ord("X"), Ord("p")}
TextTypes == {Ord("C"), Ord("c"), Ord("S"), Ord("s"), Ord("f")}

\* case FS_Type.  'n' ends with "continue", the state left as it is; 'Z'
\* and the default case assert and, without asserts, print the empty
\* text; the floating-point case asserts that its text fits work8
AtType(m0, c) ==
    LET Output(m, t) ==
            IF ~m.ndebug /\ (c \notin IntegerTypes \cup TextTypes
                             \/ (c = Ord("f") /\ ~(Len(t.text) < WorkSize)))
            THEN AssertFails(m)
            ELSE FormatOutput(t.m, t.text)
        Convert(m) ==
            IF c = Ord("n") THEN StoreCount(m)
            ELSE Output(m,
                   IF c \in IntegerTypes
                   THEN IntegerConversion(m, Radix(c), c \in {Ord("X"), Ord("p")})
                   ELSE IF c \in {Ord("C"), Ord("c")} THEN CharConversion(m)
                   ELSE IF c \in {Ord("S"), Ord("s")} THEN StringConversion(m)
                   ELSE IF c = Ord("f") THEN DoubleConversion(m, c)
                   ELSE [m |-> m, text |-> <<>>])
    IN Convert(TypeFlags(m0, c))

\* case FS_Size, for the characters it does not hand on to FS_Type
SizeChars == {Ord("l"), Ord("L"), Ord("h"), Ord("w"), Ord("I")}
AtSize(m, c) ==
    LET long2 == c = Ord("l") /\ DataPeek(m, 0) = Ord("l")
        i64 == c = Ord("I") /\ DataPeek(m, 0) = Ord("6") /\ DataPeek(m, 1) = Ord("4")
        i32 == c = Ord("I") /\ DataPeek(m, 0) = Ord("3") /\ DataPeek(m, 1) = Ord("2")
    IN [DataSkip(m, IF long2 THEN 1 ELSE IF i64 \/ i32 THEN 2 ELSE 0)
           EXCEPT !.flags = @ \cup (IF long2 \/ i64 THEN {"FF_IsLongLong"}
                                    ELSE IF c = Ord("l") THEN {"FF_IsLong"}
                                    ELSE IF c = Ord("h") THEN {"FF_IsShort"}
                                    ELSE IF c = Ord("w") THEN {"FF_IsWide"}
                                    ELSE {}),
                  !.state = "FS_Type"]

IsDecimal(c) == c >= Ord("0") /\ c <= Ord("9")

\* case FS_Precision, for '*' and the digits
AtPrecision(m, c) ==
    LET Star(am, precision) ==
            [am EXCEPT !.precision = IF precision < 0 THEN -1 ELSE precision,
                       !.state = "FS_Size"]
        Read(a) == Star(a.m, Int32Of(a.v))
    IN IF c = Ord("*") THEN Read(ArgGet(m))
       ELSE [m EXCEPT !.precision = @ * 10 + (c - Ord("0"))]

\* case FS_Width, for '*' and the digits
AtWidth(m, c) ==
    LET Star(am, width) ==
            [am EXCEPT !.width = IF width < 0 THEN -width ELSE width,
                       !.flags = @ \cup (IF width < 0 THEN {"FF_LeftJustify"} ELSE {}),
                       !.state = "FS_PrecisionStart"]
        Read(a) == Star(a.m, Int32Of(a.v))
    IN IF c = Ord("*") THEN Read(ArgGet(m))
       ELSE [m EXCEPT !.width = @ * 10 + (c - Ord("0"))]

\* case FS_Flags, for the flag characters
FlagOf(c) ==
    CASE c = Ord("-") -> {"FF_LeftJustify"}
      [] c = Ord("+") -> {"FF_AddPositive"}
      [] c = Ord("0") -> {"FF_AddLeadingZeros"}
      [] c = Ord(" ") -> {"FF_AddPositiveAsSpace"}
      [] c = Ord("#") -> {"FF_AddPrefix"}
      [] OTHER -> {}
AtFlags(m, c) == [m EXCEPT !.flags = @ \cup FlagOf(c)]

\* the label "output:"
OutputChar(m, c) ==
    LET Done(p) == IF ~p.ok THEN Returns(p.m, -1, "put") ELSE [p.m EXCEPT !.count = @ + 1]
    IN Done(PutAll(m, <<c>>))

\* the falling through of "switch (state)": a case that does not take c
\* sets the next state and hands c on.  FS_Start resets the locals.
FallThrough(m0, c) ==
    LET FromPrecision(m) ==
            IF m.state = "FS_Precision" /\ c # Ord("*") /\ ~IsDecimal(c)
            THEN [m EXCEPT !.state = "FS_Size"] ELSE m
        FromPrecisionStart(m) ==
            FromPrecision(IF m.state = "FS_PrecisionStart" /\ c # Ord(".")
                          THEN [m EXCEPT !.state = "FS_Size"] ELSE m)
        FromWidth(m) ==
            FromPrecisionStart(IF m.state = "FS_Width" /\ c # Ord("*") /\ ~IsDecimal(c)
                               THEN [m EXCEPT !.state = "FS_PrecisionStart"] ELSE m)
        FromFlags(m) ==
            FromWidth(IF m.state = "FS_Flags" /\ FlagOf(c) = {}
                      THEN [m EXCEPT !.state = "FS_Width"] ELSE m)
    IN FromFlags(IF m0.state = "FS_Start" /\ c # Ord("%")
                 THEN [m0 EXCEPT !.state = "FS_Flags", !.flags = {}, !.width = 0,
                                 !.precision = -1, !.prefix = <<>>]
                 ELSE m0)

\* switch (state), from the label "restart:"
Restart(m0, c) ==
    LET Case(m) ==
            CASE m.state = "FS_Start" -> OutputChar([m EXCEPT !.state = "FS_Unknown"], c)
              [] m.state = "FS_Flags" -> AtFlags(m, c)
              [] m.state = "FS_Width" -> AtWidth(m, c)
              [] m.state = "FS_PrecisionStart" ->
                    [m EXCEPT !.state = "FS_Precision", !.precision = 0]
              [] m.state = "FS_Precision" -> AtPrecision(m, c)
              [] m.state = "FS_Size" /\ c \in SizeChars -> AtSize(m, c)
              [] m.state \in {"FS_Size", "FS_Type"} -> AtType(m, c)
              [] OTHER -> AssertFails(m)
    IN Case(FallThrough(m0, c))

\* one pass of the for loop, from "c = data.get()"
LoopBody(m0) ==
    LET Switch(g) ==
            IF g.c = 0 THEN Returns(g.m, -1, "truncated") ELSE Restart(g.m, g.c)
        Unknown(g) ==
            IF g.m.state # "FS_Unknown" THEN Switch(g)
            ELSE IF g.c = 0 THEN Returns(g.m, g.m.count, "end")
            ELSE IF g.c # Ord("%") THEN OutputChar(g.m, g.c)
            ELSE Switch(DataGet([g.m EXCEPT !.state = "FS_Start"]))
    IN Unknown(DataGet(m0))

RECURSIVE format_loop(_)
format_loop(m) == IF m.ret.done THEN m ELSE format_loop(LoopBody(m))

format_core(format, args, wide, narrow_data, ndebug) ==
    format_loop(Machine(format, args, wide, narrow_data, ndebug))

\* the formats: a piece, or two pieces one after the other
Pieces ==
    {<<"z">>, <<"%", "%">>, <<"%", "d">>, <<"%", "5", "d">>, <<"%", "-", "5", "d">>,
     <<"%", "0", "5", "d">>, <<"%", "+", "d">>, <<"%", " ", "i">>, <<"%", "#", "x">>,
     <<"%", "#", "o">>, <<"%", "#", "6", "X">>, <<"%", "u">>, <<"%", "h", "d">>,
     <<"%", "l", "l", "d">>, <<"%", "I", "6", "4", "u">>, <<"%", ".", "*", "d">>,
     <<"%", "*", "d">>, <<"%", ".", "3", "d">>, <<"%", ".", "5", "1", "1", "d">>,
     <<"%", ".", "5", "1", "2", "d">>, <<"%", "n">>, <<"%", "h", "n">>, <<"%", "c">>,
     <<"%", "l", "c">>, <<"%", "C">>, <<"%", "s">>, <<"%", "S">>, <<"%", ".", "1", "s">>,
     <<"%", "f">>, <<"%", ".", "*", "f">>, <<"%", "#", ".", "0", "f">>,
     <<"%", "Z">>, <<"%", "k">>, <<"%">>, <<"%", "5">>, <<"%", "p">>}
Followers == {<<"z">>, <<"d">>, <<"%", "d">>, <<"%", "n">>}
Formats == {Str(p) : p \in Pieces} \cup {Str(p \o q) : p \in Pieces, q \in Followers}
\* the argument lists
ArgLists ==
    {<<Slot(3), Slot(-7), Slot(16)>>, <<Slot(-7), Slot(3), Slot(24)>>,
     <<Slot(16), Slot(300), Slot(0)>>, <<Slot(24), Slot(16), Slot(3)>>,
     <<Slot(300), Slot(24), Slot(-7)>>, <<Slot(512), Slot(3), Slot(16)>>,
     <<Slot(600), Slot2_5, Slot(0)>>, <<Slot2_5, Slot(3), Slot(16)>>,
     <<Slot(0), Slot(0), Slot(0)>>}

\* what a call made of the process: it returned; it ended at a failed
\* assert; or it wrote outside work8, after which the call may return as
\* if nothing had happened or the process may fault
Outcomes(m) ==
    IF m.ret.why = "assert" THEN {"abort"}
    ELSE IF m.lo < 0 \/ m.hi > WorkSize - 1 THEN {"returns", "fault"}
    ELSE {"returns"}

NoFormat == [op |-> "none"]
FmtInit ==
    /\ fcall \in [format : Formats, args : ArgLists, ndebug : BOOLEAN]
    /\ flast = NoFormat
FmtIdle == fcall = <<>> /\ flast = NoFormat

\* what a caller sees of the call that ended in the machine m
Outcome(op, m) ==
    \E outcome \in Outcomes(m) :
        flast' = [op |-> op, outcome |-> outcome, value |-> m.ret.value,
                  why |-> m.ret.why, out |-> m.out, lo |-> m.lo, hi |-> m.hi,
                  stores |-> m.stores, state |-> m.state]
\* a caller of format_core: the data source it builds and the "wide" it passes
Format(op, wide, narrow_data) ==
    /\ flast = NoFormat
    /\ Outcome(op, format_core(fcall.format, fcall.args, wide, narrow_data, fcall.ndebug))
    /\ UNCHANGED fcall
    /\ UNCHANGED notFmt
\* __imp__DbgPrint: StringFormatData, narrow
DbgPrint == Format("DbgPrint", FALSE, TRUE)
\* __imp__swprintf: WideStringFormatData, wide
swprintf == Format("swprintf", TRUE, FALSE)
\* __imp___vscwprintf: WideCountFormatData, wide
vscwprintf == Format("_vscwprintf", TRUE, FALSE)
FmtReturn ==
    /\ flast # NoFormat
    /\ flast' = NoFormat
    /\ UNCHANGED fcall
    /\ UNCHANGED notFmt
FmtNext == DbgPrint \/ swprintf \/ vscwprintf \/ FmtReturn

Formatted == flast # NoFormat /\ flast.outcome = "returns"

\* C23: whenever format_core returns a non-negative count, the count is
\* the number of characters it passed to put (data.count() of
\* WideCountFormatData, the length of the string of the other two sources).
C23_CountIsPuts ==
    Formatted /\ flast.value >= 0 => flast.value = Len(flast.out)
\* a conversion with padding and a prefix was counted
C23_Witness ==
    /\ Formatted /\ flast.value = 6
    /\ fcall.format = Str(<<"%", "#", "6", "X">>)
    /\ flast.out = Str(<<" ", " ", " ", "0", "X", "3">>)
C23_WitnessLeft ==
    /\ Formatted /\ flast.value = 6
    /\ fcall.format = Str(<<"%", "-", "5", "d", "z">>)
    /\ flast.out = Str(<<"-", "7", " ", " ", " ", "z">>)

\* the complete conversion specifications among the pieces, and those
\* written with n
Conversions ==
    {Str(p) : p \in {q \in Pieces : Len(q) >= 2 /\ q[Len(q)] \in
        {"d", "i", "x", "X", "o", "u", "n", "c", "C", "s", "S", "f", "p"}}}
StoresCount == {Str(<<"%", "n">>), Str(<<"%", "h", "n">>)}
\* the call ran to a return that is not the -1 of a failed put
Completed == Formatted /\ flast.why # "put"

\* C24: after every completed conversion specification, %n included, the
\* machine is back in the literal-text state: a format that ends right
\* after the conversion returns the count and not -1, and a literal
\* character that follows is output unchanged.
C24_AsStated ==
    /\ Completed /\ fcall.format \in Conversions
         => flast.value >= 0 /\ flast.state = "FS_Unknown"
    /\ Completed /\ (\E p \in Conversions : fcall.format = p \o Str(<<"z">>))
         => /\ flast.value >= 1
            /\ flast.out[Len(flast.out)] = Ord("z")
\* the same for every conversion but %n and %hn, where it holds
C24_ExceptN ==
    /\ Completed /\ fcall.format \in Conversions \ StoresCount
         => flast.value >= 0 /\ flast.state = "FS_Unknown"
    /\ Completed /\ (\E p \in Conversions \ StoresCount : fcall.format = p \o Str(<<"z">>))
         => /\ flast.value >= 1
            /\ flast.out[Len(flast.out)] = Ord("z")
C24_WitnessExceptN ==
    /\ Completed /\ fcall.format = Str(<<"%", "u", "z">>)
    /\ flast.out = Str(<<"3", "z">>)
\* "%n" alone stores the count and then returns -1
C24_StoredThenFailed ==
    /\ Completed /\ fcall.format = Str(<<"%", "n">>)
    /\ Len(flast.stores) = 1 /\ flast.value = -1

\* C25: for every precision, width and flag combination of an integer or
\* floating-point conversion, format_core writes only inside work8.
C25_AsStated ==
    flast # NoFormat => flast.lo >= 0 /\ flast.hi <= WorkSize - 1
\* below the largest precision the integer conversions stay inside
C25_Below512 ==
    flast # NoFormat /\ fcall.format = Str(<<"%", ".", "5", "1", "1", "d">>)
        => flast.lo = 0 /\ flast.hi = WorkSize - 1
C25_Witness511 ==
    /\ Formatted /\ fcall.format = Str(<<"%", ".", "5", "1", "1", "d">>)
    /\ flast.value = 511
\* "%.512d" stores its first digit at work8[-1]
C25_Underrun ==
    /\ flast # NoFormat /\ fcall.format = Str(<<"%", ".", "5", "1", "2", "d">>)
    /\ flast.lo = -1
\* "%.*f" with a precision of 600 copies 603 bytes to work8
C25_Overrun ==
    /\ flast # NoFormat /\ fcall.format = Str(<<"%", ".", "*", "f">>)
    /\ flast.hi > WorkSize - 1

---------------------------------------------------------------------------
(* SpecAdjacent: reservations made one by one with AllocFixed(kReserve),   *)
(* commits of a reserved run, and DeallocFixed(base, 0, kRelease), on the  *)
(* host window with the arena not yet mapped.  runs keeps the ranges the   *)
(* successful reservations were made with, which the mapping table does    *)
(* not: two anonymous PROT_NONE mappings that touch are one entry of       *)
(* /proc/self/maps.                                                        *)

NoAdjacent == [op |-> "none", base |-> 0, len |-> 0, ok |-> FALSE, pre |-> <<>>, runs |-> {}]
AdjInit ==
    /\ avmas = [p \in HostPages |-> IF p < ArenaEnd THEN Unmapped ELSE Foreign]
    /\ runs = {}
    /\ alast = NoAdjacent
AdjIdle == avmas = <<>> /\ runs = {} /\ alast = NoAdjacent

RunPages(r) == RangePages(r.base, r.len)

\* AllocFixed(base, length, kReserve, access) with a fixed base
ReserveRun ==
    /\ alast = NoAdjacent
    /\ \E base_address \in HostPages, length \in Lengths \ {0}, access \in PageAccesses :
         /\ InWindow(base_address, length)
         /\ LET r == AllocFixed(avmas, base_address, length, "kReserve", access, 0)
            IN /\ avmas' = r.vmas
               /\ runs' = IF r.result # 0
                          THEN runs \cup {[base |-> base_address, len |-> length]}
                          ELSE runs
               /\ alast' = [op |-> "AllocFixed", base |-> base_address, len |-> length,
                            ok |-> r.result # 0, pre |-> avmas, runs |-> runs]
    /\ UNCHANGED notAdj

\* AllocFixed(base, length, kCommit, access) of a run reserved before
CommitRun ==
    /\ alast = NoAdjacent
    /\ \E run \in runs, access \in PageAccesses :
         LET r == AllocFixed(avmas, run.base, run.len, "kCommit", access, 0)
         IN /\ avmas' = r.vmas
            /\ alast' = [op |-> "AllocFixed", base |-> run.base, len |-> run.len,
                         ok |-> r.result # 0, pre |-> avmas, runs |-> runs]
    /\ UNCHANGED runs
    /\ UNCHANGED notAdj

\* DeallocFixed(base, 0, kRelease); a run goes with its pages
ReleaseRun ==
    /\ alast = NoAdjacent
    /\ \E base_address \in HostPages :
         LET r == DeallocFixed(avmas, base_address, 0, "kRelease")
         IN /\ avmas' = r.vmas
            /\ runs' = {run \in runs : \A p \in RunPages(run) : IsMapped(r.vmas, p)}
            /\ alast' = [op |-> "DeallocFixed", base |-> base_address, len |-> 0,
                         ok |-> r.ok, pre |-> avmas, runs |-> runs]
    /\ UNCHANGED notAdj

AdjReturn ==
    /\ alast # NoAdjacent
    /\ alast' = NoAdjacent
    /\ UNCHANGED <<avmas, runs>>
    /\ UNCHANGED notAdj

AdjNext == ReserveRun \/ CommitRun \/ ReleaseRun \/ AdjReturn

\* two reservations made separately, the second starting where the first ends
AdjacentRuns ==
    {rr \in alast.runs \X alast.runs : rr[1].base + rr[1].len = rr[2].base}
Released == alast.op = "DeallocFixed"
\* the pages of r are unmapped and every other page is as it was
UnmapsExactly(r) ==
    \A p \in HostPages :
        avmas[p] = IF p \in RunPages(r) THEN Unmapped ELSE alast.pre[p]

\* C26: for two reservations made separately at adjacent ranges [a,b) and
\* [b,c), DeallocFixed(a, 0, release) unmaps exactly [a,b) and leaves [b,c)
\* mapped, and DeallocFixed(b, 0, release) succeeds and unmaps exactly
\* [b,c) while [a,b) is still mapped.
C26_AsStated ==
    Released =>
        \A rr \in AdjacentRuns :
            /\ alast.base = rr[1].base => alast.ok /\ UnmapsExactly(rr[1])
            /\ alast.base = rr[2].base => alast.ok /\ UnmapsExactly(rr[2])
\* what the code does with them: a release at a that succeeds takes both
\* reservations with it, and the release at b fails and unmaps nothing
C26_WholeSpan ==
    Released =>
        \A rr \in AdjacentRuns :
            /\ alast.base = rr[1].base /\ alast.ok =>
                  \A p \in RunPages(rr[1]) \cup RunPages(rr[2]) : ~IsMapped(avmas, p)
            /\ alast.base = rr[2].base => ~alast.ok /\ avmas = alast.pre
C26_WitnessFirst ==
    /\ Released /\ alast.ok
    /\ \E rr \in AdjacentRuns : alast.base = rr[1].base /\ ~IsMapped(avmas, rr[2].base)
C26_WitnessSecond ==
    /\ Released /\ ~alast.ok
    /\ \E rr \in AdjacentRuns : alast.base = rr[2].base

---------------------------------------------------------------------------
(* SpecReg: the registration of the configuration variables.  A            *)
(* REXCVAR_DEFINE_* macro constructs a FlagRegistrar from a FlagEntry and  *)
(* chains metadata calls on it; RegisterFlag is also called directly.      *)
(* registry is the vector of GetRegistryStorage(), index the map of        *)
(* GetRegistryIndex(); positions count from one here.  Of a FlagEntry the  *)
(* name, the default value and the fields the chain writes are kept.       *)

RegNames == {"vsync", "scale"}
Defaults == {"0", "1"}
Unconstrained == [has |-> FALSE, min |-> 0, max |-> 0]
\* the FlagEntry a REXCVAR_DEFINE_* macro builds
FlagEntry(name, default_value) ==
    [name |-> name, default_value |-> default_value, lifecycle |-> "kHotReload",
     range |-> Unconstrained, allowed_values |-> {}, is_debug_only |-> FALSE,
     custom_validator |-> "none"]

\* RegisterFlag(entry): the registry and the index after it
RegisterFlag(reg, idx, e) ==
    IF e.name \in DOMAIN idx THEN [registry |-> reg, index |-> idx]
    ELSE [registry |-> Append(reg, e),
          index |-> [n \in DOMAIN idx \cup {e.name} |->
                       IF n = e.name THEN Len(reg) + 1 ELSE idx[n]]]
\* the mutant: the duplicate replaces the entry of its name
RegisterFlag_Replaces(reg, idx, e) ==
    IF e.name \in DOMAIN idx
    THEN [registry |-> [reg EXCEPT ![idx[e.name]] = e], index |-> idx]
    ELSE [registry |-> Append(reg, e),
          index |-> [n \in DOMAIN idx \cup {e.name} |->
                       IF n = e.name THEN Len(reg) + 1 ELSE idx[n]]]

\* the chain methods: each writes one part of *entry_ptr
Methods == {"range", "allowed", "lifecycle", "debug_only", "validator"}
ChainMethod(e, method) ==
    CASE method = "range" -> [e EXCEPT !.range = [has |-> TRUE, min |-> 1, max |-> 8]]
      [] method = "allowed" -> [e EXCEPT !.allowed_values = {"0", "1"}]
      [] method = "lifecycle" -> [e EXCEPT !.lifecycle = "kInitOnly"]
      [] method = "debug_only" -> [e EXCEPT !.is_debug_only = TRUE]
      [] method = "validator" -> [e EXCEPT !.custom_validator = "fn"]
RECURSIVE Chained(_, _)
Chained(e, chain) ==
    IF chain = <<>> THEN e
    ELSE Chained(ChainMethod(e, Head(chain)), Tail(chain))
\* the chains of the declarations
Chains == {<<>>, <<"range", "allowed">>, <<"lifecycle", "debug_only">>, <<"validator">>}

\* FlagRegistrar(e) and the chain on the temporary: entry_ptr is the
\* address of registry.back() after RegisterFlag
FlagRegistrar(reg, idx, e, chain) ==
    LET r == RegisterFlag(reg, idx, e)
        entry_ptr == Len(r.registry)
    IN [registry |-> [r.registry EXCEPT ![entry_ptr] = Chained(@, chain)],
        index |-> r.index, entry_ptr |-> entry_ptr]

NoRegistration == [op |-> "none"]
RegInit ==
    /\ registry = <<>>
    /\ index = <<>>
    /\ glast = NoRegistration
RegIdle == registry = <<>> /\ index = <<>> /\ glast = NoRegistration

\* a definition of a flag by a macro, with the chain written after it
DefineFlag ==
    /\ glast = NoRegistration
    /\ \E name \in RegNames, default_value \in Defaults, chain \in Chains :
         LET r == FlagRegistrar(registry, index, FlagEntry(name, default_value), chain)
         IN /\ registry' = r.registry
            /\ index' = r.index
            /\ glast' = [op |-> "FlagRegistrar", name |-> name, chain |-> chain,
                         given |-> FlagEntry(name, default_value),
                         registry |-> registry, index |-> index]
    /\ UNCHANGED notReg

\* a direct call of RegisterFlag
RegisterCall ==
    /\ glast = NoRegistration
    /\ \E name \in RegNames, default_value \in Defaults :
         LET r == RegisterFlag(registry, index, FlagEntry(name, default_value))
         IN /\ registry' = r.registry
            /\ index' = r.index
            /\ glast' = [op |-> "RegisterFlag", name |-> name, chain |-> <<>>,
                         given |-> FlagEntry(name, default_value),
                         registry |-> registry, index |-> index]
    /\ UNCHANGED notReg

RegReturn ==
    /\ glast # NoRegistration
    /\ glast' = NoRegistration
    /\ UNCHANGED <<registry, index>>
    /\ UNCHANGED notReg

RegNext == DefineFlag \/ RegisterCall \/ RegReturn

IsRegistration == glast # NoRegistration
Duplicate == IsRegistration /\ glast.name \in DOMAIN glast.index
\* the entry of the call's name before the chain: the one registered
\* before, or the one given
Named == IF Duplicate THEN glast.registry[glast.index[glast.name]] ELSE glast.given
\* the positions of the registry that hold the call's name
Own == {i \in DOMAIN registry : registry[i].name = glast.name}
\* the entries registered before the call that have another name
Others == {i \in DOMAIN glast.registry : glast.registry[i].name # glast.name}

\* C28: the metadata chained on a FlagRegistrar is applied to the registry
\* entry that has the registrar's own flag name and to no other entry, also
\* when a flag of that name was already registered; registering a duplicate
\* name leaves every existing entry unchanged.
C28_AsStated ==
    IsRegistration =>
        /\ \A i \in Own : registry[i] = Chained(Named, glast.chain)
        /\ \A i \in Others : registry[i] = glast.registry[i]
        /\ Duplicate /\ glast.op = "RegisterFlag" => registry = glast.registry
\* what the code does: the chain is applied to the last entry of the
\* registry, whatever its name, and no other entry changes
C28_LastEntry ==
    IsRegistration =>
        LET before == IF Duplicate THEN glast.registry
                      ELSE Append(glast.registry, glast.given)
        IN /\ Len(registry) = Len(before)
           /\ \A i \in DOMAIN registry :
                registry[i] = IF i = Len(registry) THEN Chained(before[i], glast.chain)
                              ELSE before[i]
\* with a name not registered before, the claim is what happens
C28_NewName == IsRegistration /\ ~Duplicate => C28_AsStated
\* RegisterFlag itself leaves the registry and the index alone on a duplicate
C28_DuplicateIgnored ==
    Duplicate /\ glast.op = "RegisterFlag" =>
        registry = glast.registry /\ index = glast.index
\* a second definition of the first of two flags has put its metadata on the
\* second flag
C28_WitnessOtherEntry ==
    /\ Duplicate /\ glast.op = "FlagRegistrar" /\ glast.chain # <<>>
    /\ \E i \in Others : registry[i] # glast.registry[i]
    /\ \A i \in Own : registry[i] = glast.registry[i]
\* a new name defined with a chain, after another flag
C28_WitnessNewName ==
    /\ IsRegistration /\ ~Duplicate /\ glast.op = "FlagRegistrar" /\ glast.chain # <<>>
    /\ Others # {}
\* a duplicate handed to RegisterFlag with another default value
C28_WitnessDuplicate ==
    /\ Duplicate /\ glast.op = "RegisterFlag"
    /\ glast.given.default_value # Named.default_value

---------------------------------------------------------------------------
(* SpecCrf: the code build_mtcr, build_mfcr and build_mfocrf emit, run on  *)
(* one general register and the eight condition fields.  A 64-bit value is *)
(* the set of the positions of its one bits, 0 the least significant; a    *)
(* statement of the emitted code is a record, and running the code runs    *)
(* its statements in order.                                                *)

fields == <<"lt", "gt", "eq", "so">>
CrFields == 0 .. 7
\* the positions of the one bits the inputs are made of
TestBits == {0, 3, 4, 15, 16, 28, 31, 32, 63}
\* the FXM operands: the eight one-hot masks, no bit, two bits
FxmMasks == {128, 64, 32, 16, 8, 4, 2, 1, 0, 192}
OneHot(fxm) == fxm \in {128, 64, 32, 16, 8, 4, 2, 1}

\* the mutant of build_mtcr: the mask is 1u << i
build_mtcr_Reversed ==
    [k \in 1 .. 32 |->
        [op |-> "flag", cr |-> (k - 1) \div 4, flag |-> fields[((k - 1) % 4) + 1],
         bit |-> k - 1]]
\* mtcr: "cr<i/4>.<fields[i%4]> = (r.u32 & 1u << (31 - i)) != 0;" for i = 0..31
build_mtcr ==
    [k \in 1 .. 32 |->
        [op |-> "flag", cr |-> (k - 1) \div 4, flag |-> fields[((k - 1) % 4) + 1],
         bit |-> 31 - (k - 1)]]
\* mfcr: "r.u64 = cr0.lt ? 0x80000000 : 0;" and then
\* "r.u64 |= cr<i/4>.<fields[i%4]> ? 1u << (31 - i) : 0;" for i = 1..31
build_mfcr ==
    [k \in 1 .. 32 |->
        [op |-> IF k = 1 THEN "assign" ELSE "or", cr |-> (k - 1) \div 4,
         flag |-> fields[((k - 1) % 4) + 1], bit |-> 31 - (k - 1)]]
\* mfocrf: the first field of the mask from CR0 down, field 0 for no bit;
\* "r.u64 = (cr.lt << s+3) | (cr.gt << s+2) | (cr.eq << s+1) | (cr.so << s);"
build_mfocrf(fxm) ==
    LET hits == {i \in CrFields : (fxm \div (128 \div 2 ^ i)) % 2 = 1}
        crField == IF hits = {} THEN 0 ELSE CHOOSE i \in hits : \A j \in hits : i <= j
        baseShift == 28 - 4 * crField
    IN << [op |-> "shifts", cr |-> crField, flag |-> "", bit |-> baseShift] >>

\* an int converted to uint64_t: the sign bit fills the upper half
IntToU64(bits) == IF 31 \in bits THEN bits \cup (32 .. 63) ELSE bits
\* one statement on the state st: the register r and the condition fields c
Statement(s, st) ==
    CASE s.op = "flag" ->
           [st EXCEPT !.c[s.cr][s.flag] = s.bit \in st.r]
      [] s.op = "assign" ->
           [st EXCEPT !.r = IF st.c[s.cr][s.flag] THEN {s.bit} ELSE {}]
      [] s.op = "or" ->
           [st EXCEPT !.r = IF st.c[s.cr][s.flag] THEN @ \cup {s.bit} ELSE @]
      [] s.op = "shifts" ->
           [st EXCEPT !.r = IntToU64({s.bit + 4 - k :
                                        k \in {k \in 1 .. 4 : st.c[s.cr][fields[k]]}})]
\* the state after the first k statements of the code
RECURSIVE RunFirst(_, _, _)
RunFirst(code, k, st) ==
    IF k = 0 THEN st ELSE Statement(code[k], RunFirst(code, k - 1, st))
RunCode(code, r, c) == RunFirst(code, Len(code), [r |-> r, c |-> c])

NoCrMove == [op |-> "none", fxm |-> 0, v |-> {}]
CrfInit ==
    /\ gpr \in SUBSET TestBits
    /\ crf = [f \in CrFields |-> [g \in {"lt", "gt", "eq", "so"} |-> FALSE]]
    /\ crlast = NoCrMove
CrfIdle == gpr = {} /\ crf = <<>> /\ crlast = NoCrMove

\* mtcr rS, once, from the value the register starts with
Mtcr ==
    /\ crlast = NoCrMove
    /\ crf' = RunCode(build_mtcr, gpr, crf).c
    /\ crlast' = [op |-> "mtcr", fxm |-> 0, v |-> gpr]
    /\ UNCHANGED gpr
    /\ UNCHANGED notCrf
\* mfcr rD
Mfcr ==
    /\ crlast # NoCrMove
    /\ gpr' = RunCode(build_mfcr, gpr, crf).r
    /\ crlast' = [crlast EXCEPT !.op = "mfcr"]
    /\ UNCHANGED crf
    /\ UNCHANGED notCrf
\* mfocrf rD, FXM
Mfocrf ==
    /\ crlast # NoCrMove
    /\ \E fxm \in FxmMasks :
         /\ gpr' = RunCode(build_mfocrf(fxm), gpr, crf).r
         /\ crlast' = [crlast EXCEPT !.op = "mfocrf", !.fxm = fxm]
    /\ UNCHANGED crf
    /\ UNCHANGED notCrf

CrfNext == Mtcr \/ Mfcr \/ Mfocrf

\* the low 32 bits of v, zero extended
LowWord(v) == {b \in v : b < 32}
\* the positions of field f in the result of mfcr
FieldBits(f) == {31 - 4 * f - k : k \in 0 .. 3}
\* the field a one-hot mask names: bit 7 is CR0, bit 0 is CR7
FieldOf(fxm) == CHOOSE f \in CrFields : fxm = 128 \div 2 ^ f

\* C30: for every 64-bit register value v, the code emitted for mtcr from v
\* followed by the code emitted for mfcr yields exactly the low 32 bits of
\* v zero-extended to 64 bits, with bit 31-i of the result equal to flag
\* i mod 4 (lt, gt, eq, so) of condition field i div 4, and mfocrf for a
\* single field returns the same bits as mfcr at that field's position.
C30_RoundTrip ==
    /\ crlast.op = "mfcr" =>
          /\ gpr = LowWord(crlast.v)
          /\ \A i \in 0 .. 31 : ((31 - i) \in gpr) <=> crf[i \div 4][fields[(i % 4) + 1]]
    /\ crlast.op = "mfocrf" /\ OneHot(crlast.fxm) =>
          gpr \cap FieldBits(FieldOf(crlast.fxm))
             = RunCode(build_mfcr, gpr, crf).r \cap FieldBits(FieldOf(crlast.fxm))
\* mfcr after mtcr from a value with bits on both sides of bit 32
C30_WitnessMfcr ==
    /\ crlast.op = "mfcr" /\ {31, 32, 63, 0} \subseteq crlast.v
    /\ gpr = LowWord(crlast.v) /\ crf[7]["so"] /\ crf[0]["lt"] /\ ~crf[0]["gt"]
\* mfocrf of CR7 with so set and of CR0 with lt set
C30_WitnessMfocrf ==
    /\ crlast.op = "mfocrf" /\ crlast.fxm = 1 /\ crf[7]["so"] /\ crf[7]["lt"] /\ 0 \in gpr
C30_WitnessMfocrfCr0 ==
    /\ crlast.op = "mfocrf" /\ crlast.fxm = 128 /\ crf[0]["lt"] /\ 31 \in gpr
\* outside the field mfocrf and mfcr differ: the other fields are zero, and
\* with cr0.lt set the upper half of the register is ones
C30_MfocrfElsewhere ==
    crlast.op = "mfocrf" /\ OneHot(crlast.fxm) =>
        gpr \ FieldBits(FieldOf(crlast.fxm))
           = IF crlast.fxm = 128 /\ crf[0]["lt"] THEN 32 .. 63 ELSE {}
C30_WitnessSignExtended ==
    crlast.op = "mfocrf" /\ crlast.fxm = 128 /\ gpr = {31} \cup (32 .. 63)

---------------------------------------------------------------------------
(* Specifications.  Each one runs one layer of the program and leaves the  *)
(* variables of the other layers at their start values.                    *)

HostIdle == vmas = <<>> /\ hlast = NoCall

\* the layers of the recompiler and of the guest runtime at rest
LaterIdle == EmitIdle /\ MmioIdle /\ JmpIdle /\ CallIdle /\ CvarIdle /\ RecompIdle /\ VsatIdle /\ SplatIdle /\ FmtIdle /\ AdjIdle /\ RegIdle /\ CrfIdle

CoreIdle == HostIdle /\ VmmIdle /\ ConcIdle /\ LockIdle /\ TrapIdle

HostStart == HostInit /\ VmmInit /\ ConcIdle /\ LockIdle /\ TrapIdle /\ LaterIdle

SpecHost == HostStart /\ [][HostNext]_vars

\* the Nt*VirtualMemory entries on heap v00000000
Init == VmmInit /\ HostIdle /\ ConcIdle /\ LockIdle /\ TrapIdle /\ LaterIdle

Next ==
    \/ NtAllocate(SmallBases \cup {0, MidPage, PhysicalBase}, SmallSizes,
                  AllocTypes, ProtectBits)
    \/ NtProtect(SmallBases \cup {MidPage}, SmallSizes, ProtectBits)
    \/ NtFree(SmallBases \cup {0, MidPage}, SmallSizes)
    \/ NtFreeAgain
    \/ NtQuery(SmallBases \cup {MidPage})
    \/ NtReturn

Spec == Init /\ [][Next]_vars

\* the entries that commit, and guest stores, on heap v00000000
ZeroNext ==
    \/ NtAllocate(SmallBases \cup {0}, SmallSizes, ZeroTypes,
                  {{"X_PAGE_READONLY"}, {"X_PAGE_READWRITE"}})
    \/ NtFree(SmallBases, SmallSizes)
    \/ GuestStore
    \/ NtReturn

SpecZero == Init /\ [][ZeroNext]_vars

\* allocations of both virtual heaps, with bases and sizes of every
\* alignment and sign
RoundBases == {0, 2048, 4096, MidPage, 1073741824, 1073741824 + 4096}
RoundSizes == {1, 4096, 4097, 65536, 65537, -1, -4096, -4097, -65537}

RoundNext ==
    \/ NtAllocate(RoundBases, RoundSizes,
                  {{"X_MEM_RESERVE", "X_MEM_COMMIT"},
                   {"X_MEM_RESERVE", "X_MEM_COMMIT", "X_MEM_LARGE_PAGES"}},
                  {{"X_PAGE_READWRITE"}})
    \/ NtFree(RoundBases, {4096})
    \/ NtReturn

SpecRound == Init /\ [][RoundNext]_vars

\* two threads in the entries
SpecConc == Init /\ [][ConcNext]_vars

\* guest threads at mtmsrd and mfmsr
LockStart == LockInit /\ HostIdle /\ VmmIdle /\ ConcIdle /\ TrapIdle /\ LaterIdle

SpecLock == LockStart /\ [][LockNext]_vars

\* a guest thread at a trap
TrapStart == TrapInit /\ HostIdle /\ VmmIdle /\ ConcIdle /\ LockIdle /\ LaterIdle

SpecTrap == TrapStart /\ [][TrapNext]_vars

EmitStart == EmitInit /\ CoreIdle /\ MmioIdle /\ JmpIdle /\ CallIdle /\ CvarIdle /\ RecompIdle /\ VsatIdle /\ SplatIdle /\ FmtIdle /\ AdjIdle /\ RegIdle /\ CrfIdle

SpecEmit == EmitStart /\ [][EmitNext]_vars

MmioStart == MmioInit /\ CoreIdle /\ EmitIdle /\ JmpIdle /\ CallIdle /\ CvarIdle /\ RecompIdle /\ VsatIdle /\ SplatIdle /\ FmtIdle /\ AdjIdle /\ RegIdle /\ CrfIdle

SpecMmio == MmioStart /\ [][MmioNext]_vars

JmpStart == JmpInit /\ CoreIdle /\ EmitIdle /\ MmioIdle /\ CallIdle /\ CvarIdle /\ RecompIdle /\ VsatIdle /\ SplatIdle /\ FmtIdle /\ AdjIdle /\ RegIdle /\ CrfIdle

SpecJmp == JmpStart /\ [][JmpNext]_vars

CallStart == CallInit /\ CoreIdle /\ EmitIdle /\ MmioIdle /\ JmpIdle /\ CvarIdle /\ RecompIdle /\ VsatIdle /\ SplatIdle /\ FmtIdle /\ AdjIdle /\ RegIdle /\ CrfIdle

SpecCall == CallStart /\ [][CallNext]_vars

CvarStart == CvarInit /\ CoreIdle /\ EmitIdle /\ MmioIdle /\ JmpIdle /\ CallIdle /\ RecompIdle /\ VsatIdle /\ SplatIdle /\ FmtIdle /\ AdjIdle /\ RegIdle /\ CrfIdle

SpecCvar == CvarStart /\ [][CvarNext]_vars

RecompStart == RecompInit /\ CoreIdle /\ EmitIdle /\ MmioIdle /\ JmpIdle /\ CallIdle /\ CvarIdle /\ VsatIdle /\ SplatIdle /\ FmtIdle /\ AdjIdle /\ RegIdle /\ CrfIdle

SpecRecomp == RecompStart /\ [][RecompNext]_vars

VsatStart == VsatInit /\ CoreIdle /\ EmitIdle /\ MmioIdle /\ JmpIdle /\ CallIdle /\ CvarIdle /\ RecompIdle /\ SplatIdle /\ FmtIdle /\ AdjIdle /\ RegIdle /\ CrfIdle

SpecVsat == VsatStart /\ [][VsatNext]_vars

SplatStart == SplatInit /\ CoreIdle /\ EmitIdle /\ MmioIdle /\ JmpIdle /\ CallIdle /\ CvarIdle /\ RecompIdle /\ VsatIdle /\ FmtIdle /\ AdjIdle /\ RegIdle /\ CrfIdle

SpecSplat == SplatStart /\ [][SplatNext]_vars

FmtStart == FmtInit /\ CoreIdle /\ EmitIdle /\ MmioIdle /\ JmpIdle /\ CallIdle /\ CvarIdle /\ RecompIdle /\ VsatIdle /\ SplatIdle /\ AdjIdle /\ RegIdle /\ CrfIdle

SpecFmt == FmtStart /\ [][FmtNext]_vars

AdjStart == AdjInit /\ CoreIdle /\ EmitIdle /\ MmioIdle /\ JmpIdle /\ CallIdle /\ CvarIdle /\ RecompIdle /\ VsatIdle /\ SplatIdle /\ FmtIdle /\ RegIdle /\ CrfIdle

SpecAdj == AdjStart /\ [][AdjNext]_vars

RegStart == RegInit /\ CoreIdle /\ EmitIdle /\ MmioIdle /\ JmpIdle /\ CallIdle /\ CvarIdle /\ RecompIdle /\ VsatIdle /\ SplatIdle /\ FmtIdle /\ AdjIdle /\ CrfIdle

SpecReg == RegStart /\ [][RegNext]_vars

CrfStart == CrfInit /\ CoreIdle /\ EmitIdle /\ MmioIdle /\ JmpIdle /\ CallIdle /\ CvarIdle /\ RecompIdle /\ VsatIdle /\ SplatIdle /\ FmtIdle /\ AdjIdle /\ RegIdle

SpecCrf == CrfStart /\ [][CrfNext]_vars

===========================================================================
